---- MODULE Spec2Model ----
(***************************************************************************)
(* Model of the firerunner job lifecycle engine: the scheduler             *)
(* (pkg/scheduler/scheduler.go), the VM manager (pkg/firecracker manager)  *)
(* and the application shutdown sequence (cmd/firerunner/main.go).         *)
(*                                                                         *)
(* Time is a discrete clock counted in hours; the zero time.Time is 0 and  *)
(* the process starts at hour 1.  Deadlines shorter than an hour (the 5 s  *)
(* enqueue wait, the 30 s shutdown context) are events that may fire at    *)
(* any moment while they are armed.                                        *)
(***************************************************************************)
EXTENDS Integers, Sequences, FiniteSets, TLC

\* ---------------------------------------------------------------- bounds
NumBuilds == 2
MaxCalls == 3
QueueSize == 1
WorkerCount == 2
MaxTime == 4
TimedMaxCalls == 1
ShutdownMaxCalls == 2
FifoQueueSize == 2
FifoMaxCalls == 3
FairMaxCalls == 2
RateLimit == 1
NumIPs == 2
NumPorts == 2
WebhookMaxCalls == 1
SecureMaxCalls == 1
ParseMaxCalls == 1
StartupMaxCalls == 2
ReapMaxCalls == 2
RetryAttempts == 1
RetryMaxCalls == 2
QueryMaxCalls == 1
MaxPolls == 6
ClockMaxTime == 2
ClockMaxCalls == 2
LostMaxCalls == 1
CallCap == 2
MaxNum == 16

\* ------------------------------------------------------ program constants
JobTimeout == 2
JobMaxAge == 1
VMMaxAge == 2
DefaultRetryAttempts == 3

\* scheduler.job_timeout as loaded from the configuration file: the default,
\* or a longer one (Validate puts no limit on it).
JobTimeouts == {JobTimeout, JobTimeout + 1}

Builds == 1..NumBuilds
Objs == 1..MaxCalls
Workers == 1..WorkerCount
Terminal == {"finished", "failed"}
IPs == 1..NumIPs
Ports == 1..NumPorts
Addrs == IPs \X Ports

VARIABLES
    cfg,          \* the loaded configuration (config.SchedulerConfig)
    now,          \* clock (hours)
    heap,         \* the Job objects allocated by ScheduleJob, by allocation index
    nAlloc,       \* number of Job objects allocated so far
    jobs,         \* Scheduler.jobs: build id -> Job object index (0: no entry)
    jobQueue,     \* Scheduler.jobQueue: buffered channel of Job objects
    queueClosed,  \* close(s.jobQueue) has happened
    workers,      \* per worker goroutine: position in run/processJob and its Job
    jobReaper,    \* Scheduler.cleanupRoutine goroutine is alive
    vms,          \* Manager.vms: ids of tracked VMs
    vmCreatedAt,  \* MicroVM.CreatedAt by VM id
    backendVMs,   \* VMs that exist at the provisioning backend
    backendUp,    \* the backend currently answers delete requests
    ciRunners,    \* runner ids registered on the CI platform
    vmReaper,     \* Manager cleanup goroutine: alive flag and pending stale list
    sd,           \* App.Shutdown progress, deadline context and results
    unregTried,   \* history: runner ids for which UnregisterRunner was called
    sdPolling,    \* history: Jobs that were in the monitor loop when Shutdown began
    destroyCalls, \* history: number of Manager.DestroyVM calls by VM id
    deleteReqs,   \* history: number of client.DeleteMicroVM calls by VM id
    createReqs,   \* history: number of client.CreateMicroVM calls by Job
    reader,       \* a caller of GetJob: the *Job it was handed and what it read then
    mon,          \* one call of JobMonitor.WaitForJobCompletion, step by step
    http          \* webhook ingress: rate-limit counters and the last request served

vars == <<cfg, now, heap, nAlloc, jobs, jobQueue, queueClosed, workers, jobReaper,
          vms, vmCreatedAt, backendVMs, backendUp, ciRunners, vmReaper, sd,
          unregTried, sdPolling, destroyCalls, deleteReqs, createReqs, reader, mon, http>>

schedVars == <<heap, nAlloc, jobs, jobQueue, queueClosed, workers, jobReaper>>
vmVars == <<vms, vmCreatedAt, backendVMs>>
destroyHist == <<destroyCalls, deleteReqs>>
histVars == <<unregTried, sdPolling, destroyHist, createReqs, reader, mon>>

\* A Job value before ScheduleJob has allocated it.
NoJob == [ID |-> 0, Status |-> "none", VM |-> 0, VMID |-> 0, RunnerID |-> 0,
          err |-> "nil", canceled |-> FALSE, CreatedAt |-> 0, StartedAt |-> 0,
          FinishedAt |-> 0, call |-> "none", conc |-> FALSE,
          Tags |-> <<>>, VCPU |-> 0, MemoryMB |-> 0]

\* The fields of a Job that a worker updates while it processes it.
Fields(j) == [Status |-> j.Status, VM |-> j.VM, RunnerID |-> j.RunnerID, err |-> j.err]

\* Nobody has called GetJob yet.
NoReader == [ref |-> 0, seen |-> Fields(NoJob)]

\* WaitForJobCompletion has not been called.
NoMonitor == [pc |-> "idle", ctxDone |-> FALSE, polls |-> 0, last |-> "none",
              job |-> "nil", err |-> "nil"]

\* A header that the request does not carry.
NoHeader == <<>>

\* The hex digest of HMAC-SHA256 over body under key.
Mac(key, body) == <<"hmac-sha256", key, body>>

\* Strings whose characters matter are sequences of one-character strings.
TagFirecracker == <<"f", "i", "r", "e", "c", "r", "a", "c", "k", "e", "r">>
TagMicrovm == <<"m", "i", "c", "r", "o", "v", "m">>
TagFirerunner == <<"f", "i", "r", "e", "r", "u", "n", "n", "e", "r">>
TagActuated == <<"a", "c", "t", "u", "a", "t", "e", "d">>

UpperCase == <<"A", "B", "C", "D", "E", "F", "G", "H", "I", "J", "K", "L", "M",
               "N", "O", "P", "Q", "R", "S", "T", "U", "V", "W", "X", "Y", "Z">>
LowerCase == <<"a", "b", "c", "d", "e", "f", "g", "h", "i", "j", "k", "l", "m",
               "n", "o", "p", "q", "r", "s", "t", "u", "v", "w", "x", "y", "z">>

\* strings.ToLower
ToLowerChar(c) == IF \E i \in 1..26 : UpperCase[i] = c
                  THEN LowerCase[CHOOSE i \in 1..26 : UpperCase[i] = c]
                  ELSE c
ToLower(str) == [i \in 1..Len(str) |-> ToLowerChar(str[i])]

\* strings.TrimSpace
IsSpace(c) == c \in {" ", "\t", "\n", "\r"}

RECURSIVE TrimLeft(_)
TrimLeft(str) == IF str # <<>> /\ IsSpace(Head(str)) THEN TrimLeft(Tail(str)) ELSE str

RECURSIVE TrimRight(_)
TrimRight(str) == IF str # <<>> /\ IsSpace(str[Len(str)])
                  THEN TrimRight(SubSeq(str, 1, Len(str) - 1)) ELSE str

TrimSpace(str) == TrimRight(TrimLeft(str))

\* strings.HasPrefix
HasPrefix(str, prefix) ==
    Len(str) >= Len(prefix) /\ SubSeq(str, 1, Len(prefix)) = prefix

\* strings.HasSuffix, strings.TrimSuffix, strings.Contains
HasSuffix(str, suffix) ==
    Len(str) >= Len(suffix)
    /\ SubSeq(str, Len(str) - Len(suffix) + 1, Len(str)) = suffix

TrimSuffix(str, suffix) ==
    IF HasSuffix(str, suffix) THEN SubSeq(str, 1, Len(str) - Len(suffix)) ELSE str

Contains(str, substr) ==
    \E i \in 1..(Len(str) + 1) :
        /\ i + Len(substr) - 1 <= Len(str)
        /\ SubSeq(str, i, i + Len(substr) - 1) = substr

\* strings.Split(str, "-"): the pieces between the separators (one empty
\* piece for the empty string).
RECURSIVE SplitFrom(_, _)
SplitFrom(str, piece) ==
    IF str = <<>> THEN <<piece>>
    ELSE IF Head(str) = "-" THEN <<piece>> \o SplitFrom(Tail(str), <<>>)
    ELSE SplitFrom(Tail(str), Append(piece, Head(str)))

Split(str) == SplitFrom(str, <<>>)

Digits == <<"0", "1", "2", "3", "4", "5", "6", "7", "8", "9">>

IsDigit(c) == \E d \in 1..10 : Digits[d] = c

DigitValue(c) == (CHOOSE d \in 1..10 : Digits[d] = c) - 1

\* The longest run of decimal digits at the start of str.
RECURSIVE LeadingDigits(_)
LeadingDigits(str) ==
    IF str # <<>> /\ IsDigit(Head(str))
    THEN <<Head(str)>> \o LeadingDigits(Tail(str)) ELSE <<>>

\* strconv.ParseInt(digits, 10, 64) of a run of decimal digits
RECURSIVE DecimalValue(_)
DecimalValue(digits) ==
    IF digits = <<>> THEN 0
    ELSE 10 * DecimalValue(SubSeq(digits, 1, Len(digits) - 1))
         + DigitValue(digits[Len(digits)])

\* ss.SkipSpace of an Sscanf: blanks, tabs and carriage returns are skipped.
RECURSIVE SkipSpace(_)
SkipSpace(str) ==
    IF str # <<>> /\ Head(str) \in {" ", "\t", "\r"} THEN SkipSpace(Tail(str)) ELSE str

\* parseInt with an Sscanf that rejects input left over after the number
\* (variant).
parseIntWhole(s) ==
    LET digits == LeadingDigits(s) IN
    IF digits = <<>> \/ digits # s THEN [err |-> TRUE, result |-> 0]
    ELSE [err |-> FALSE, result |-> DecimalValue(digits)]

\* parseInt: fmt.Sscanf(s, "%d", &result). The verb skips leading space,
\* takes an optional sign and then the longest run of decimal digits; what
\* follows the digits is left unread and is no error.
parseInt(s) ==
    LET t == SkipSpace(s)
        neg == t # <<>> /\ Head(t) = "-"
        u == IF t # <<>> /\ Head(t) \in {"+", "-"} THEN Tail(t) ELSE t
        digits == LeadingDigits(u)
    IN  IF digits = <<>> THEN [err |-> TRUE, result |-> 0]
        ELSE [err |-> FALSE,
              result |-> IF neg THEN 0 - DecimalValue(digits) ELSE DecimalValue(digits)]

SuffixCpu == <<"c", "p", "u">>
SuffixGb == <<"g", "b">>

\* The inner loop of ParseVMRequirements over parts[i..], from the values req.
RECURSIVE ParseParts(_, _, _)
ParseParts(parts, i, req) ==
    IF i > Len(parts) THEN req
    ELSE LET part == parts[i]
             cpu == parseInt(TrimSuffix(part, SuffixCpu))
             mem == parseInt(TrimSuffix(part, SuffixGb))
             r1 == IF HasSuffix(part, SuffixCpu) /\ ~cpu.err
                   THEN [req EXCEPT !.vcpu = cpu.result] ELSE req
             r2 == IF HasSuffix(part, SuffixGb) /\ i > 1 /\ ~mem.err
                   THEN [r1 EXCEPT !.memoryMB = mem.result * 1024] ELSE r1
         IN  ParseParts(parts, i + 1, r2)

\* The outer loop of ParseVMRequirements over tags[i..].
RECURSIVE ParseTags(_, _, _)
ParseTags(tags, i, req) ==
    IF i > Len(tags) THEN req
    ELSE ParseTags(tags, i + 1,
                   IF Contains(tags[i], SuffixCpu) /\ Contains(tags[i], SuffixGb)
                   THEN ParseParts(Split(tags[i]), 1, req) ELSE req)

\* gitlab.ParseVMRequirements
ParseVMRequirements(tags) == ParseTags(tags, 1, [vcpu |-> 2, memoryMB |-> 4096])

\* n in decimal, as strconv and fmt print it.
RECURSIVE Numeral(_)
Numeral(n) == IF n < 10 THEN <<Digits[n + 1]>>
              ELSE Numeral(n \div 10) \o <<Digits[(n % 10) + 1]>>

\* pieces joined by "-" (strings.Join)
RECURSIVE Join(_)
Join(pieces) == IF Len(pieces) = 1 THEN pieces[1]
                ELSE pieces[1] \o <<"-">> \o Join(Tail(pieces))

\* A tag of the form <prefix>-<N>cpu-<M>gb ("actuated-4cpu-8gb").
FormTag(prefix, n, m) ==
    Join(<<prefix, Numeral(n) \o SuffixCpu, Numeral(m) \o SuffixGb>>)

\* Tag lists a Job Hook may carry: " MicroVM ", "FIRERUNNER-2cpu", "docker",
\* "xactuated", "fire", "Firecracker".
TagLists ==
    { <<>>,
      << <<" ", "M", "i", "c", "r", "o", "V", "M", " ">> >>,
      << <<"d", "o", "c", "k", "e", "r">>,
         <<"F", "I", "R", "E", "R", "U", "N", "N", "E", "R", "-", "2", "c", "p", "u">> >>,
      << <<"d", "o", "c", "k", "e", "r">> >>,
      << <<"x", "a", "c", "t", "u", "a", "t", "e", "d">>, <<"f", "i", "r", "e">> >>,
      << <<"F", "i", "r", "e", "c", "r", "a", "c", "k", "e", "r">> >> }

\* JSON bodies, by what json.Unmarshal makes of them: ok is false for a body
\* that does not parse into the event struct.
Bodies == [ok : BOOLEAN, status : {"created", "pending", "running"},
           tags : TagLists, build : Builds]

\* HTTP requests to /webhook.
Requests == [method : {"POST", "GET"}, tls : BOOLEAN, ip : IPs, port : Ports,
             big : BOOLEAN, token : {"", "s3cret", "wrong"},
             sig : {NoHeader} \cup {Mac(k, b) : k \in {"s3cret", "wrong"}, b \in Bodies},
             hub : {NoHeader} \cup {Mac(k, b) : k \in {"s3cret", "wrong"}, b \in Bodies},
             event : {"", "Job Hook", "Pipeline Hook", "Push Hook"},
             body : Bodies]

\* A request of the plainest kind, from which the request sets of the
\* specifications vary the fields they are about.
PlainRequest == [method |-> "POST", tls |-> FALSE, ip |-> 1, port |-> 1, big |-> FALSE,
                 token |-> "s3cret", sig |-> NoHeader, hub |-> NoHeader,
                 event |-> "Job Hook",
                 body |-> [ok |-> TRUE, status |-> "pending",
                           tags |-> << TagFirecracker >>, build |-> 1]]

\* Before the first request: nothing served.
NoResponse == [req |-> PlainRequest, code |-> -1, parsed |-> FALSE, scheduled |-> FALSE]

\* The process is running (it has neither exited nor panicked).
Alive == sd.pc # "terminated"

\* The configuration the model runs with unless a specification says
\* otherwise: the defaults of config.Default and DefaultSecurityConfig, with
\* the capacities and limits at the model's bounds and a webhook secret set.
DefaultCfg == [JobTimeout |-> JobTimeout, QueueSize |-> QueueSize,
               WebhookSecret |-> "s3cret", RequireSecret |-> TRUE,
               RequireSSL |-> FALSE, AllowedIPs |-> {},
               RateLimitPerMinute |-> RateLimit,
               URL |-> "https://gitlab", Token |-> "glpat",
               Endpoint |-> "localhost:9090", Port |-> 8080,
               DefaultVCPU |-> 2, DefaultMemoryMB |-> 4096,
               WorkerCount |-> WorkerCount, RetryAttempts |-> RetryAttempts]

\* job.ctx.Done(): canceled explicitly, or past the deadline that
\* context.WithTimeout(ctx, s.config.JobTimeout) set at creation.
CtxDone(o) == heap[o].canceled \/ now >= heap[o].CreatedAt + cfg.JobTimeout

\* The process at the point pc of main with the configuration c, before
\* any request has arrived.
InitAt(c, pc) ==
    /\ cfg = c
    /\ now = 1
    /\ heap = [o \in Objs |-> NoJob]
    /\ nAlloc = 0
    /\ jobs = [b \in Builds |-> 0]
    /\ jobQueue = <<>>
    /\ queueClosed = FALSE
    /\ workers = [w \in Workers |-> [pc |-> "idle", job |-> 0, ret |-> "final"]]
    /\ jobReaper = TRUE
    /\ vms = {}
    /\ vmCreatedAt = [v \in Objs |-> 0]
    /\ backendVMs = {}
    /\ backendUp = TRUE
    /\ ciRunners = {}
    /\ vmReaper = [alive |-> TRUE, stale |-> {}]
    /\ sd = [pc |-> pc, ctxDone |-> FALSE, schedErr |-> "none",
             mgrErr |-> "none", list |-> {}]
    /\ unregTried = {}
    /\ sdPolling = {}
    /\ destroyCalls = [v \in Objs |-> 0]
    /\ deleteReqs = [v \in Objs |-> 0]
    /\ createReqs = [o \in Objs |-> 0]
    /\ reader = NoReader
    /\ mon = NoMonitor
    /\ http = [counts |-> [a \in Addrs |-> 0], windowOld |-> FALSE,
               passed |-> [i \in IPs |-> 0], last |-> NoResponse]

\* The state after initializeApp and Start with the configuration c.
InitCfg(c) == InitAt(c, "running")

\* The state after initializeApp and Start, with job_timeout jt loaded.
InitWith(jt) == InitCfg([DefaultCfg EXCEPT !.JobTimeout = jt])

\* config.Default()
Init == InitWith(JobTimeout)

\* Something is due within the hour: a ScheduleJob call in its select, a
\* worker between two blocking points of processJob, a worker with work in
\* the queue, a monitor whose token is done, the reaper between its scan and
\* its destroy calls.
Urgent ==
    \/ \E o \in Objs : heap[o].call = "pending"
    \/ \E w \in Workers : workers[w].pc \notin {"idle", "wait", "exited"}
    \/ \E w \in Workers : workers[w].pc = "idle" /\ jobQueue # <<>>
    \/ \E w \in Workers : workers[w].pc = "wait" /\ CtxDone(workers[w].job)
    \/ vmReaper.stale # {}

\* An hour passes; nothing that takes seconds is left waiting over it.
Tick ==
    /\ Alive
    /\ now < MaxTime
    /\ ~Urgent
    /\ now' = now + 1
    /\ UNCHANGED <<cfg, http, schedVars, vmVars, backendUp, ciRunners, vmReaper, sd, histVars>>


\* ------------------------------------------------------------------------
\* Scheduler: registry helpers
\* ------------------------------------------------------------------------

\* Scheduler.trackJob: s.jobs[job.ID] = job
trackJob(reg, id, o) == [reg EXCEPT ![id] = o]

\* untrackJob with the delete left out (variant).
untrackJobKeeps(reg, id) == reg

\* Scheduler.untrackJob: delete(s.jobs, jobID)
untrackJob(reg, id) == [reg EXCEPT ![id] = 0]

\* Scheduler.updateJobStatus: stamps the Job the registry holds under jobID
\* (a no-op when the registry has no such entry).
updateJobStatus(h, id, status) ==
    IF jobs[id] = 0 THEN h
    ELSE LET o == jobs[id] IN
         [h EXCEPT ![o].Status = status,
                   ![o].StartedAt = IF status = "running" /\ h[o].StartedAt = 0
                                    THEN now ELSE @,
                   ![o].FinishedAt = IF ~(status = "running" /\ h[o].StartedAt = 0)
                                        /\ status \in Terminal
                                     THEN now ELSE @]

\* The Job value ScheduleJob constructs for an event with build id b and the
\* tags given.
NewJob(b, tags) ==
    [NoJob EXCEPT !.ID = b, !.Status = "queued", !.CreatedAt = now,
                  !.call = "pending", !.Tags = tags,
                  !.VCPU = ParseVMRequirements(tags).vcpu,
                  !.MemoryMB = ParseVMRequirements(tags).memoryMB]

\* ------------------------------------------------------------------------
\* Scheduler.ScheduleJob, in its three steps: construct and track; then the
\* select between the channel send and the 5 s timer.
\* ------------------------------------------------------------------------

\* ScheduleJob up to and including trackJob.
TrackNewJob(b, tags) ==
    /\ Alive
    /\ sd.pc = "running"
    /\ nAlloc < MaxCalls
    /\ LET o == nAlloc + 1 IN
       /\ nAlloc' = o
       /\ heap' = [heap EXCEPT ![o] = NewJob(b, tags)]
       /\ jobs' = trackJob(jobs, b, o)
    /\ UNCHANGED <<cfg, now, jobQueue, queueClosed, workers, jobReaper, vmVars,
                   backendUp, ciRunners, vmReaper, sd, histVars>>

\* ScheduleJob called for an event of build b (the request that carried the
\* event is not looked at).
ScheduleTrack(b) == TrackNewJob(b, PlainRequest.body.tags) /\ UNCHANGED http

\* A select whose timer case is taken although the send could proceed (variant).
TimerFiresAnyway(q) == TRUE

\* The select reaches its time.After case only if the send on the buffered
\* channel make(chan *Job, cfg.QueueSize) cannot proceed.
TimerMayFire(q) == Len(q) >= cfg.QueueSize

\* case s.jobQueue <- job: the send succeeds, ScheduleJob returns nil.
\* A channel whose buffer takes any number of values (variant).
SendAlwaysProceeds(q) == TRUE

\* The send on the buffered channel proceeds while the buffer has room.
SendMayProceed(q) == Len(q) < cfg.QueueSize

ScheduleEnqueue(o) ==
    /\ Alive
    /\ heap[o].call = "pending"
    /\ ~queueClosed
    /\ SendMayProceed(jobQueue)
    /\ jobQueue' = Append(jobQueue, o)
    /\ heap' = [heap EXCEPT ![o].call = "ok"]
    /\ UNCHANGED <<cfg, http, now, nAlloc, jobs, queueClosed, workers, jobReaper, vmVars,
                   backendUp, ciRunners, vmReaper, sd, histVars>>

\* case <-time.After(5s): the queue is (still) full; cancel, untrack, error.
\* conc records, for every other call still waiting, that a concurrent call
\* was rejected.
ScheduleTimeout(o) ==
    /\ Alive
    /\ heap[o].call = "pending"
    /\ ~queueClosed
    /\ TimerMayFire(jobQueue)
    /\ heap' = [p \in Objs |->
                  IF p = o THEN [heap[p] EXCEPT !.canceled = TRUE, !.call = "full"]
                  ELSE IF heap[p].call = "pending" THEN [heap[p] EXCEPT !.conc = TRUE]
                  ELSE heap[p]]
    /\ jobs' = untrackJob(jobs, heap[o].ID)
    /\ UNCHANGED <<cfg, http, now, nAlloc, jobQueue, queueClosed, workers, jobReaper, vmVars,
                   backendUp, ciRunners, vmReaper, sd, histVars>>

\* The send case on a closed channel panics.  The call runs in the goroutine
\* of its HTTP request, where net/http recovers the panic: the call neither
\* returns nor untracks its Job, and the process goes on.
SchedulePanic(o) ==
    /\ Alive
    /\ heap[o].call = "pending"
    /\ queueClosed
    /\ heap' = [heap EXCEPT ![o].call = "panic"]
    /\ UNCHANGED <<cfg, http, now, nAlloc, jobs, jobQueue, queueClosed, workers, jobReaper, vmVars,
                   backendUp, ciRunners, vmReaper, sd, histVars>>

\* ------------------------------------------------------------------------
\* Scheduler.cleanup and cleanupRoutine (the finished-job reaper)
\* ------------------------------------------------------------------------

\* A pass that deletes terminal Jobs from the age of 1 h on (variant).
ReapableFromAge == {b \in Builds : /\ jobs[b] # 0
                                   /\ heap[jobs[b]].Status \in Terminal
                                   /\ heap[jobs[b]].FinishedAt # 0
                                   /\ now - heap[jobs[b]].FinishedAt >= JobMaxAge}

\* The build ids whose registry entry a pass of Scheduler.cleanup deletes.
Reapable == {b \in Builds : /\ jobs[b] # 0
                            /\ heap[jobs[b]].Status \in Terminal
                            /\ heap[jobs[b]].FinishedAt # 0
                            /\ now - heap[jobs[b]].FinishedAt > JobMaxAge}

\* One ticker pass of Scheduler.cleanup, under the registry lock.
JobCleanup ==
    /\ Alive
    /\ jobReaper
    /\ Reapable # {}
    /\ heap' = [p \in Objs |->
                  IF \E b \in Reapable : jobs[b] = p
                  THEN [heap[p] EXCEPT !.canceled = TRUE] ELSE heap[p]]
    /\ jobs' = [b \in Builds |-> IF b \in Reapable THEN 0 ELSE jobs[b]]
    /\ UNCHANGED <<cfg, http, now, nAlloc, jobQueue, queueClosed, workers, jobReaper, vmVars,
                   backendUp, ciRunners, vmReaper, sd, histVars>>

\* cleanupRoutine returns once s.shutdownCh is closed.
JobReaperExit ==
    /\ Alive
    /\ jobReaper
    /\ sd.pc \in {"schedWait", "mgr", "mgrWait", "mgrDestroy"}
    /\ jobReaper' = FALSE
    /\ UNCHANGED <<cfg, http, now, heap, nAlloc, jobs, jobQueue, queueClosed, workers, vmVars,
                   backendUp, ciRunners, vmReaper, sd, histVars>>


\* ------------------------------------------------------------------------
\* VM Manager
\* ------------------------------------------------------------------------

\* A history counter, counted up to CallCap.
CountN(f, x, n) == [f EXCEPT ![x] = IF @ + n < CallCap THEN @ + n ELSE CallCap]
Count(f, x) == [f EXCEPT ![x] = IF @ < CallCap THEN @ + 1 ELSE @]

\* A lookup that finds every id (variant).
getVMFindsAny(v) == TRUE

\* Manager.getVM(v) # nil
getVM(v) == v \in vms

\* Manager.DestroyVM(ctx, v) succeeds: the VM is tracked and the backend
\* delete (which needs a live context and a reachable backend) returns nil.
DestroyOK(v, ctxLive) == getVM(v) /\ ctxLive /\ backendUp

\* The error Manager.DestroyVM(ctx, v) returns.
DestroyErr(v, ctxLive) ==
    IF ~getVM(v) THEN "not found"
    ELSE IF ~DestroyOK(v, ctxLive) THEN "failed to delete microVM"
    ELSE "nil"

\* Manager.DestroyVM: not found -> error; backend error -> error, still
\* tracked; otherwise deleted at the backend and untracked.
DestroyVM(v, ctxLive) ==
    /\ destroyCalls' = Count(destroyCalls, v)
    /\ deleteReqs' = IF getVM(v) THEN Count(deleteReqs, v) ELSE deleteReqs
    /\ IF DestroyOK(v, ctxLive)
       THEN /\ backendVMs' = backendVMs \ {v}
            /\ vms' = vms \ {v}
            /\ UNCHANGED vmCreatedAt
       ELSE UNCHANGED vmVars

\* A cleanup pass that finds no VM stale (variant).
NoStaleVMs == {}

\* A cleanup pass that counts a VM stale from the age of 2 h on (variant).
StaleVMsFromAge == {v \in vms : now - vmCreatedAt[v] >= VMMaxAge}

\* Manager.cleanup, first half: collect the ids of the stale VMs.
StaleVMs == {v \in vms : now - vmCreatedAt[v] > VMMaxAge}

VMReaperScan ==
    /\ Alive
    /\ vmReaper.alive
    /\ vmReaper.stale = {}
    /\ StaleVMs # {}
    /\ vmReaper' = [vmReaper EXCEPT !.stale = StaleVMs]
    /\ UNCHANGED <<cfg, http, now, schedVars, vmVars, backendUp, ciRunners, sd, histVars>>

\* Manager.cleanup, second half: DestroyVM for one collected id.
VMReaperDestroy(v) ==
    /\ Alive
    /\ vmReaper.alive
    /\ v \in vmReaper.stale
    /\ DestroyVM(v, TRUE)
    /\ vmReaper' = [vmReaper EXCEPT !.stale = @ \ {v}]
    /\ UNCHANGED <<cfg, http, now, schedVars, backendUp, ciRunners, sd, unregTried, sdPolling, createReqs, reader, mon>>

\* The cleanup goroutine returns once m.shutdownCh is closed.
VMReaperExit ==
    /\ Alive
    /\ vmReaper.alive
    /\ vmReaper.stale = {}
    /\ sd.pc \in {"mgrWait", "mgrDestroy"}
    /\ vmReaper' = [vmReaper EXCEPT !.alive = FALSE]
    /\ UNCHANGED <<cfg, http, now, schedVars, vmVars, backendUp, ciRunners, sd, histVars>>

\* The provisioning backend goes down or comes back.
BackendToggle ==
    /\ Alive
    /\ backendUp' = ~backendUp
    /\ UNCHANGED <<cfg, http, now, schedVars, vmVars, ciRunners, vmReaper, sd, histVars>>

\* ------------------------------------------------------------------------
\* Worker.run and Worker.processJob
\* ------------------------------------------------------------------------

W(w) == workers[w]
Goto(w, pc) == workers' = [workers EXCEPT ![w].pc = pc]

\* A receive that takes the value sent last (variant).
ReceiveLast(q) == [job |-> q[Len(q)], rest |-> SubSeq(q, 1, Len(q) - 1)]

\* A receive on the buffered channel takes the value sent first.
Receive(q) == [job |-> Head(q), rest |-> Tail(q)]

\* case job, ok := <-jobQueue with ok: a buffered Job is received (also after
\* the channel was closed).
WorkerDequeue(w) ==
    /\ Alive
    /\ W(w).pc = "idle"
    /\ jobQueue # <<>>
    /\ jobQueue' = Receive(jobQueue).rest
    /\ workers' = [workers EXCEPT ![w] = [pc |-> "start",
                                          job |-> Receive(jobQueue).job,
                                          ret |-> "final"]]
    /\ UNCHANGED <<cfg, http, now, heap, nAlloc, jobs, queueClosed, jobReaper, vmVars,
                   backendUp, ciRunners, vmReaper, sd, histVars>>

\* !ok: the channel is closed and drained; the worker returns.
WorkerExit(w) ==
    /\ Alive
    /\ W(w).pc = "idle"
    /\ jobQueue = <<>>
    /\ queueClosed
    /\ Goto(w, "exited")
    /\ UNCHANGED <<cfg, http, now, heap, nAlloc, jobs, jobQueue, queueClosed, jobReaper, vmVars,
                   backendUp, ciRunners, vmReaper, sd, histVars>>

\* updateJobStatus(job.ID, "running")
WorkerStart(w) ==
    /\ Alive
    /\ W(w).pc = "start"
    /\ heap' = updateJobStatus(heap, heap[W(w).job].ID, "running")
    /\ Goto(w, "create")
    /\ UNCHANGED <<cfg, http, now, nAlloc, jobs, jobQueue, queueClosed, jobReaper, vmVars,
                   backendUp, ciRunners, vmReaper, sd, histVars>>

\* The attempt at which the retry loop of CreateMicroVMReal can leave.
Attempts(k) == 1..k

\* Manager.CreateVM up to the return of client.CreateMicroVM. The VM id is
\* fresh per call ("vm-<jobID>-<random>"): the index of the Job object.
\*   ok:   the backend created the VM and the call returned it (the backend
\*         is reachable and the Job's context is live)
\*   err:  the call failed and nothing was created
\* Client.CreateMicroVMReal sends the request up to flintlock.retry_attempts
\* times, until one attempt succeeds: n is the number of requests sent.
WorkerCreate(w) ==
    /\ Alive
    /\ W(w).pc = "create"
    /\ LET v == W(w).job IN
       \E res \in {"ok", "err"} : \E n \in Attempts(cfg.RetryAttempts) :
             /\ res = "ok" => backendUp /\ ~CtxDone(v)
             /\ res = "err" => n = cfg.RetryAttempts
             /\ createReqs' = CountN(createReqs, v, n)
             /\ backendVMs' = IF res = "err" THEN backendVMs ELSE backendVMs \cup {v}
             /\ vmCreatedAt' = IF res = "ok" THEN [vmCreatedAt EXCEPT ![v] = now]
                               ELSE vmCreatedAt
             /\ Goto(w, IF res = "ok" THEN "track" ELSE "createFail")
    /\ UNCHANGED <<cfg, http, now, heap, nAlloc, jobs, jobQueue, queueClosed, jobReaper, vms,
                   backendUp, ciRunners, vmReaper, sd, unregTried, sdPolling, destroyHist, reader, mon>>

\* Manager.trackVM, CreateVM returns; job.VM = vm; job.VMID = vm.ID
WorkerTrack(w) ==
    /\ Alive
    /\ W(w).pc = "track"
    /\ LET v == W(w).job IN
       /\ vms' = vms \cup {v}
       /\ heap' = [heap EXCEPT ![v].VM = v, ![v].VMID = v]
    /\ Goto(w, "register")
    /\ UNCHANGED <<cfg, http, now, nAlloc, jobs, jobQueue, queueClosed, jobReaper, vmCreatedAt,
                   backendVMs, backendUp, ciRunners, vmReaper, sd, histVars>>

\* CreateVM failed: updateJobStatus(job.ID, "failed") ...
WorkerCreateFail(w) ==
    /\ Alive
    /\ W(w).pc = "createFail"
    /\ heap' = updateJobStatus(heap, heap[W(w).job].ID, "failed")
    /\ Goto(w, "createErr")
    /\ UNCHANGED <<cfg, http, now, nAlloc, jobs, jobQueue, queueClosed, jobReaper, vmVars,
                   backendUp, ciRunners, vmReaper, sd, histVars>>

\* ... then job.err = err; return
WorkerCreateErr(w) ==
    /\ Alive
    /\ W(w).pc = "createErr"
    /\ heap' = [heap EXCEPT ![W(w).job].err = "create"]
    /\ workers' = [workers EXCEPT ![w] = [pc |-> "idle", job |-> 0, ret |-> "final"]]
    /\ UNCHANGED <<cfg, http, now, nAlloc, jobs, jobQueue, queueClosed, jobReaper, vmVars,
                   backendUp, ciRunners, vmReaper, sd, histVars>>

\* Worker.registerRunner: the runner id is fresh per registration (the index
\* of the Job object); the call has its own 30 s context.
WorkerRegister(w) ==
    /\ Alive
    /\ W(w).pc = "register"
    /\ LET o == W(w).job IN
       \E ok \in BOOLEAN :
          IF ok
          THEN /\ ciRunners' = ciRunners \cup {o}
               /\ heap' = [heap EXCEPT ![o].RunnerID = o]
               /\ Goto(w, "wait")
          ELSE /\ UNCHANGED <<ciRunners, heap>>
               /\ Goto(w, "regFail")
    /\ UNCHANGED <<cfg, http, now, nAlloc, jobs, jobQueue, queueClosed, jobReaper, vmVars,
                   backendUp, vmReaper, sd, histVars>>

\* registerRunner failed: updateJobStatus(job.ID, "failed") ...
WorkerRegFail(w) ==
    /\ Alive
    /\ W(w).pc = "regFail"
    /\ heap' = updateJobStatus(heap, heap[W(w).job].ID, "failed")
    /\ Goto(w, "regErr")
    /\ UNCHANGED <<cfg, http, now, nAlloc, jobs, jobQueue, queueClosed, jobReaper, vmVars,
                   backendUp, ciRunners, vmReaper, sd, histVars>>

\* ... then job.err = err; cleanupVM(job) follows and processJob returns
WorkerRegErr(w) ==
    /\ Alive
    /\ W(w).pc = "regErr"
    /\ heap' = [heap EXCEPT ![W(w).job].err = "register"]
    /\ workers' = [workers EXCEPT ![w].pc = "unreg", ![w].ret = "return"]
    /\ UNCHANGED <<cfg, http, now, nAlloc, jobs, jobQueue, queueClosed, jobReaper, vmVars,
                   backendUp, ciRunners, vmReaper, sd, histVars>>


\* A monitor for which only success completes a job (variant).
isJobCompleteOnSuccess(st) == st = "success"

\* JobMonitor.isJobComplete
isJobComplete(st) == st \in {"success", "failed", "canceled", "skipped"}

\* What a poll of GitLabService.GetJob can yield: a CI status, or an error.
PollResults == {"created", "pending", "running", "success", "failed", "canceled",
                "skipped", "error"}

\* Worker.waitForJobCompletion around JobMonitor.WaitForJobCompletion: one
\* turn of the select loop.
\*   <-ctx.Done():  the monitor returns ctx.Err(), job.err = err
\*   <-ticker.C:    GetJob; a complete status ends the loop (job.err is set
\*                  unless it is success); an error or any other status
\*                  leaves the loop running
WorkerWait(w) ==
    /\ Alive
    /\ W(w).pc = "wait"
    /\ LET o == W(w).job IN
       \/ /\ CtxDone(o)
          /\ heap' = [heap EXCEPT ![o].err = "ctx"]
          /\ Goto(w, "unreg")
       \/ \E st \in PollResults :
             IF isJobComplete(st)
             THEN /\ heap' = [heap EXCEPT ![o].err = IF st = "success" THEN @
                                                     ELSE "status"]
                  /\ Goto(w, "unreg")
             ELSE UNCHANGED <<heap, workers>>
    /\ UNCHANGED <<cfg, http, now, nAlloc, jobs, jobQueue, queueClosed, jobReaper, vmVars,
                   backendUp, ciRunners, vmReaper, sd, histVars>>

\* Worker.cleanupVM step 1: UnregisterRunner if job.RunnerID > 0. The call
\* may fail, and then the runner stays registered; the error is only logged.
WorkerUnreg(w) ==
    /\ Alive
    /\ W(w).pc = "unreg"
    /\ LET r == heap[W(w).job].RunnerID IN
       IF r > 0
       THEN /\ unregTried' = unregTried \cup {r}
            /\ \E ok \in BOOLEAN :
                  ciRunners' = IF ok THEN ciRunners \ {r} ELSE ciRunners
       ELSE UNCHANGED <<unregTried, ciRunners>>
    /\ Goto(w, "destroy")
    /\ UNCHANGED <<cfg, http, now, heap, nAlloc, jobs, jobQueue, queueClosed, jobReaper, vmVars,
                   backendUp, vmReaper, sd, sdPolling, destroyHist, createReqs, reader, mon>>

\* Worker.cleanupVM step 2: DestroyVM unless job.VMID is empty; the error is
\* only logged. Then either processJob returns (registration failure path) or
\* the final status stamp follows.
WorkerDestroy(w) ==
    /\ Alive
    /\ W(w).pc = "destroy"
    /\ LET v == heap[W(w).job].VMID IN
       IF v = 0 THEN UNCHANGED <<vmVars, destroyHist>> ELSE DestroyVM(v, TRUE)
    /\ workers' = [workers EXCEPT ![w] =
                      IF W(w).ret = "final" THEN [@ EXCEPT !.pc = "final"]
                      ELSE [pc |-> "idle", job |-> 0, ret |-> "final"]]
    /\ UNCHANGED <<cfg, http, now, heap, nAlloc, jobs, jobQueue, queueClosed, jobReaper,
                   backendUp, ciRunners, vmReaper, sd, unregTried, sdPolling, createReqs, reader, mon>>

\* Final status stamp: failed if job.err != nil, else finished.
WorkerFinal(w) ==
    /\ Alive
    /\ W(w).pc = "final"
    /\ LET o == W(w).job IN
       heap' = updateJobStatus(heap, heap[o].ID,
                               IF heap[o].err # "nil" THEN "failed" ELSE "finished")
    /\ workers' = [workers EXCEPT ![w] = [pc |-> "idle", job |-> 0, ret |-> "final"]]
    /\ UNCHANGED <<cfg, http, now, nAlloc, jobs, jobQueue, queueClosed, jobReaper, vmVars,
                   backendUp, ciRunners, vmReaper, sd, histVars>>

\* ------------------------------------------------------------------------
\* App.Shutdown: HTTP server, Scheduler.Shutdown, Manager.Shutdown, exit
\* ------------------------------------------------------------------------

\* waitForShutdown: a signal arrives; the 30 s context starts; App.Shutdown
\* begins with httpServer.Shutdown(ctx).
SignalShutdown ==
    /\ sd.pc = "running"
    /\ sd' = [sd EXCEPT !.pc = "http"]
    /\ UNCHANGED <<cfg, http, now, schedVars, vmVars, backendUp, ciRunners, vmReaper, histVars>>

\* The 30 s shutdown context expires.
ShutdownDeadline ==
    /\ sd.pc \notin {"running", "terminated"}
    /\ ~sd.ctxDone
    /\ sd' = [sd EXCEPT !.ctxDone = TRUE]
    /\ UNCHANGED <<cfg, http, now, schedVars, vmVars, backendUp, ciRunners, vmReaper, histVars>>

\* httpServer.Shutdown returns: every handler has returned, or ctx is done.
HttpShutdown ==
    /\ sd.pc = "http"
    /\ sd.ctxDone \/ \A o \in Objs : heap[o].call # "pending"
    /\ sd' = [sd EXCEPT !.pc = "sched"]
    /\ UNCHANGED <<cfg, http, now, schedVars, vmVars, backendUp, ciRunners, vmReaper, histVars>>

\* Scheduler.Shutdown: close(s.shutdownCh); close(s.jobQueue)
SchedShutdownBegin ==
    /\ sd.pc = "sched"
    /\ queueClosed' = TRUE
    /\ sd' = [sd EXCEPT !.pc = "schedWait"]
    /\ sdPolling' = {W(w).job : w \in {x \in Workers : W(x).pc = "wait"}}
    /\ UNCHANGED <<cfg, http, now, heap, nAlloc, jobs, jobQueue, workers, jobReaper, vmVars,
                   backendUp, ciRunners, vmReaper, unregTried, destroyHist, createReqs, reader, mon>>

\* s.wg.Wait() has returned: every worker and the cleanup routine are gone.
WaitGroupDone == ~jobReaper /\ \A w \in Workers : W(w).pc = "exited"

\* case <-done: cancel the token of every Job left in the registry; return nil.
SchedShutdownDone ==
    /\ sd.pc = "schedWait"
    /\ WaitGroupDone
    /\ heap' = [p \in Objs |->
                  IF \E b \in Builds : jobs[b] = p
                  THEN [heap[p] EXCEPT !.canceled = TRUE] ELSE heap[p]]
    /\ sd' = [sd EXCEPT !.pc = "mgr", !.schedErr = "nil"]
    /\ UNCHANGED <<cfg, http, now, nAlloc, jobs, jobQueue, queueClosed, workers, jobReaper,
                   vmVars, backendUp, ciRunners, vmReaper, histVars>>

\* case <-ctx.Done(): return ctx.Err(), nothing is canceled.
SchedShutdownTimeout ==
    /\ sd.pc = "schedWait"
    /\ sd.ctxDone
    /\ sd' = [sd EXCEPT !.pc = "mgr", !.schedErr = "deadline"]
    /\ UNCHANGED <<cfg, http, now, schedVars, vmVars, backendUp, ciRunners, vmReaper, histVars>>

\* Manager.Shutdown: close(m.shutdownCh)
MgrShutdownBegin ==
    /\ sd.pc = "mgr"
    /\ sd' = [sd EXCEPT !.pc = "mgrWait"]
    /\ UNCHANGED <<cfg, http, now, schedVars, vmVars, backendUp, ciRunners, vmReaper, histVars>>

\* case <-done: the cleanup goroutine is gone; vms := m.ListVMs()
MgrShutdownList ==
    /\ sd.pc = "mgrWait"
    /\ ~vmReaper.alive
    /\ sd' = [sd EXCEPT !.pc = "mgrDestroy", !.list = vms]
    /\ UNCHANGED <<cfg, http, now, schedVars, vmVars, backendUp, ciRunners, vmReaper, histVars>>

\* case <-ctx.Done(): return ctx.Err(); App.Shutdown returns and main exits.
MgrShutdownTimeout ==
    /\ sd.pc = "mgrWait"
    /\ sd.ctxDone
    /\ sd' = [sd EXCEPT !.pc = "terminated", !.mgrErr = "deadline"]
    /\ UNCHANGED <<cfg, http, now, schedVars, vmVars, backendUp, ciRunners, vmReaper, histVars>>

\* DestroyVM(ctx, vm.ID) for one listed VM, under the shutdown context.
MgrShutdownDestroy(v) ==
    /\ sd.pc = "mgrDestroy"
    /\ v \in sd.list
    /\ DestroyVM(v, ~sd.ctxDone)
    /\ sd' = [sd EXCEPT !.list = @ \ {v}]
    /\ UNCHANGED <<cfg, http, now, schedVars, backendUp, ciRunners, vmReaper, unregTried, sdPolling, createReqs, reader, mon>>

\* Manager.Shutdown returns nil; App.Shutdown returns and main exits.
MgrShutdownReturn ==
    /\ sd.pc = "mgrDestroy"
    /\ sd.list = {}
    /\ sd' = [sd EXCEPT !.pc = "terminated", !.mgrErr = "nil"]
    /\ UNCHANGED <<cfg, http, now, schedVars, vmVars, backendUp, ciRunners, vmReaper, histVars>>

\* ------------------------------------------------------------------------
\* Webhook ingress: WebhookHandler (pkg/gitlab/webhook.go), which main mounts
\* on /webhook
\* ------------------------------------------------------------------------

\* WebhookHandler.hasFireRunnerTag
hasFireRunnerTag(tags) ==
    \E i \in 1..Len(tags) :
        LET tag == ToLower(TrimSpace(tags[i])) IN
        \/ HasPrefix(tag, TagFirecracker)
        \/ HasPrefix(tag, TagMicrovm)
        \/ HasPrefix(tag, TagFirerunner)
        \/ HasPrefix(tag, TagActuated)

\* WebhookHandler.verifyHMAC
verifyHMAC(body, signature) == signature = Mac(cfg.WebhookSecret, body)

\* A handler that takes every request as signed (variant).
verifySignatureSkipped(r) == TRUE

\* WebhookHandler.verifySignature
verifySignature(r) ==
    IF cfg.WebhookSecret = "" THEN TRUE
    ELSE IF r.token = "" THEN FALSE
    ELSE IF r.token = cfg.WebhookSecret THEN TRUE
    ELSE IF r.sig # NoHeader THEN verifyHMAC(r.body, r.sig)
    ELSE FALSE

\* WebhookHandler.processJobEvent: "error" (the body does not parse),
\* "ignored" (return nil without the processor), or "schedule"
\* (processor.ProcessJobEvent, which is Scheduler.ScheduleJob).
processJobEvent(body) ==
    IF ~body.ok THEN "error"
    ELSE IF body.status # "pending" /\ body.status # "created" THEN "ignored"
    ELSE IF ~hasFireRunnerTag(body.tags) THEN "ignored"
    ELSE "schedule"

\* WebhookHandler.processPipelineEvent; EventProcessor.ProcessPipelineEvent
\* only logs.
processPipelineEvent(body) == IF ~body.ok THEN "error" ELSE "ignored"

\* WebhookHandler.processEvent
processEvent(eventType, body) ==
    CASE eventType = "Job Hook" -> processJobEvent(body)
      [] eventType = "Pipeline Hook" -> processPipelineEvent(body)
      [] OTHER -> "ignored"

\* WebhookHandler.ServeHTTP up to the call of ScheduleJob: the status code
\* (0 while ScheduleJob decides between 200 and 500), whether a body was
\* handed to an event parser, whether ScheduleJob is called.
ServeHTTP(r) ==
    IF r.method # "POST"
    THEN [code |-> 405, parsed |-> FALSE, schedule |-> FALSE]
    ELSE IF ~verifySignature(r)
    THEN [code |-> 401, parsed |-> FALSE, schedule |-> FALSE]
    ELSE IF r.event = ""
    THEN [code |-> 400, parsed |-> FALSE, schedule |-> FALSE]
    ELSE LET res == processEvent(r.event, r.body)
             parsed == r.event \in {"Job Hook", "Pipeline Hook"}
         IN  CASE res = "error" -> [code |-> 500, parsed |-> parsed, schedule |-> FALSE]
               [] res = "ignored" -> [code |-> 200, parsed |-> parsed, schedule |-> FALSE]
               [] res = "schedule" -> [code |-> 0, parsed |-> parsed, schedule |-> TRUE]

\* The rest of the state when a request ends without ScheduleJob.
NothingScheduled ==
    UNCHANGED <<cfg, now, schedVars, vmVars, backendUp, ciRunners, vmReaper, sd,
                histVars>>

\* One request to /webhook, served by the mounted WebhookHandler, up to the
\* response or to ScheduleJob's select.
WebhookServe(r) ==
    /\ Alive
    /\ sd.pc = "running"
    /\ LET h == ServeHTTP(r) IN
       /\ http' = [http EXCEPT !.last = [req |-> r, code |-> h.code,
                                         parsed |-> h.parsed,
                                         scheduled |-> h.schedule]]
       /\ IF h.schedule THEN TrackNewJob(r.body.build, r.body.tags) ELSE NothingScheduled

\* ------------------------------------------------------------------------
\* SecureWebhookHandler (pkg/gitlab, security wrapper around WebhookHandler)
\* ------------------------------------------------------------------------

\* r.RemoteAddr: "IP:port"
RemoteAddr(r) == <<r.ip, r.port>>

\* SecureWebhookHandler.isIPAllowed: the address up to its last colon must be
\* in the list, unless the list is empty.
isIPAllowed(remoteAddr) ==
    IF cfg.AllowedIPs = {} THEN TRUE ELSE remoteAddr[1] \in cfg.AllowedIPs

\* SecureWebhookHandler.checkRateLimit: the counters after the call. The map
\* is keyed by r.RemoteAddr; it is replaced by an empty one when more than a
\* minute has passed since lastReset.
CountsAfter(remoteAddr) ==
    LET base == IF http.windowOld THEN [a \in Addrs |-> 0] ELSE http.counts
    IN  [base EXCEPT ![remoteAddr] = @ + 1]

\* SecureWebhookHandler.verifyHMACSHA256 (the "sha256=" prefix stripped)
verifyHMACSHA256(r, signature) == signature = Mac(cfg.WebhookSecret, r.body)

\* SecureWebhookHandler.verifySignature
secureVerifySignature(r) ==
    IF r.token # "" THEN r.token = cfg.WebhookSecret
    ELSE IF r.hub # NoHeader THEN verifyHMACSHA256(r, r.hub)
    ELSE FALSE

\* SecureWebhookHandler.ServeHTTP: its five checks, then the wrapped
\* WebhookHandler.  limited: whether checkRateLimit is reached at all.
SecureServeHTTP(r) ==
    IF cfg.RequireSSL /\ ~r.tls
    THEN [code |-> 403, parsed |-> FALSE, schedule |-> FALSE, limited |-> FALSE]
    ELSE IF ~isIPAllowed(RemoteAddr(r))
    THEN [code |-> 403, parsed |-> FALSE, schedule |-> FALSE, limited |-> FALSE]
    ELSE IF CountsAfter(RemoteAddr(r))[RemoteAddr(r)] > cfg.RateLimitPerMinute
    THEN [code |-> 429, parsed |-> FALSE, schedule |-> FALSE, limited |-> TRUE]
    ELSE IF r.big
    THEN [code |-> 413, parsed |-> FALSE, schedule |-> FALSE, limited |-> TRUE]
    ELSE IF cfg.RequireSecret /\ cfg.WebhookSecret # "" /\ ~secureVerifySignature(r)
    THEN [code |-> 401, parsed |-> FALSE, schedule |-> FALSE, limited |-> TRUE]
    ELSE ServeHTTP(r) @@ [limited |-> TRUE]

\* One request served by a SecureWebhookHandler, up to the response or to
\* ScheduleJob's select.  passed counts, per peer IP, the requests that got
\* past the rate limit since the counters were last reset.
SecureServe(r) ==
    /\ Alive
    /\ sd.pc = "running"
    /\ LET h == SecureServeHTTP(r)
           reset == h.limited /\ http.windowOld
           pass == IF reset THEN [i \in IPs |-> 0] ELSE http.passed
       IN
       /\ http' = [counts |-> IF h.limited THEN CountsAfter(RemoteAddr(r))
                              ELSE http.counts,
                   windowOld |-> IF reset THEN FALSE ELSE http.windowOld,
                   passed |-> IF h.limited /\ h.code # 429
                              THEN [pass EXCEPT ![r.ip] = @ + 1] ELSE pass,
                   last |-> [req |-> r, code |-> h.code, parsed |-> h.parsed,
                             scheduled |-> h.schedule]]
       /\ IF h.schedule THEN TrackNewJob(r.body.build, r.body.tags) ELSE NothingScheduled

\* More than a minute has passed since lastReset.
MinutePasses ==
    /\ Alive
    /\ ~http.windowOld
    /\ http' = [http EXCEPT !.windowOld = TRUE]
    /\ NothingScheduled

\* ------------------------------------------------------------------------
\* Startup: main, loadConfig (cmd/firerunner/main.go); config.Load,
\* applyEnvOverrides, Validate, Default (pkg/config/config.go)
\* ------------------------------------------------------------------------

\* Config.Validate: the error it returns, "nil" for none.
Validate(c) ==
    IF c.URL = "" THEN "gitlab.url is required"
    ELSE IF c.Token = "" THEN "gitlab.token is required"
    ELSE IF c.Endpoint = "" THEN "flintlock.endpoint is required"
    ELSE IF c.Port < 1 \/ c.Port > 65535 THEN "invalid server.port"
    ELSE IF c.DefaultVCPU < 1 THEN "vm.default_vcpu must be >= 1"
    ELSE IF c.DefaultMemoryMB < 512 THEN "vm.default_memory_mb must be >= 512"
    ELSE IF c.QueueSize < 1 THEN "scheduler.queue_size must be >= 1"
    ELSE IF c.WorkerCount < 1 THEN "scheduler.worker_count must be >= 1"
    ELSE "nil"

\* config.Default(): no CI URL, token or webhook secret.
ConfigDefault == [DefaultCfg EXCEPT !.URL = "", !.Token = "", !.WebhookSecret = ""]

\* Config.applyEnvOverrides: a variable that is set and not empty replaces
\* the value of the file.
applyEnvOverrides(c, env) ==
    [c EXCEPT !.URL = IF env.GITLAB_URL # "" THEN env.GITLAB_URL ELSE @,
              !.Token = IF env.GITLAB_TOKEN # "" THEN env.GITLAB_TOKEN ELSE @,
              !.WebhookSecret = IF env.GITLAB_WEBHOOK_SECRET # ""
                                THEN env.GITLAB_WEBHOOK_SECRET ELSE @,
              !.Endpoint = IF env.FLINTLOCK_ENDPOINT # ""
                           THEN env.FLINTLOCK_ENDPOINT ELSE @]

\* config.Load: read, unmarshal, override from the environment, validate.
Load(file, env) ==
    IF ~file.parses THEN [err |-> "failed to parse config file", cfg |-> file.cfg]
    ELSE LET c == applyEnvOverrides(file.cfg, env) IN
         IF Validate(c) # "nil" THEN [err |-> "invalid configuration", cfg |-> c]
         ELSE [err |-> "nil", cfg |-> c]

\* loadConfig in main.go: without a file at the path, config.Default().
loadConfig(file, env) ==
    IF ~file.exists THEN [err |-> "nil", cfg |-> ConfigDefault]
    ELSE Load(file, env)

\* What the file at the -config path may hold: valid settings, and settings
\* in which some values are missing or out of range.
FileConfigs ==
    {[DefaultCfg EXCEPT !.URL = u, !.Token = t, !.Endpoint = e] :
        u \in {"", "https://gitlab"}, t \in {"", "glpat"}, e \in {"", "localhost:9090"}}
    \cup {[DefaultCfg EXCEPT !.Port = p, !.DefaultVCPU = v] :
        p \in {0, 1, 8080, 65535, 65536}, v \in {0, 1, 2}}
    \cup {[DefaultCfg EXCEPT !.DefaultMemoryMB = m, !.QueueSize = q, !.WorkerCount = w] :
        m \in {511, 512, 4096}, q \in {0, QueueSize}, w \in {0, WorkerCount}}

ConfigFiles ==
    {[exists |-> FALSE, parses |-> FALSE, cfg |-> ConfigDefault],
     [exists |-> TRUE, parses |-> FALSE, cfg |-> ConfigDefault]}
    \cup {[exists |-> TRUE, parses |-> TRUE, cfg |-> c] : c \in FileConfigs}

Environments ==
    [GITLAB_URL : {"", "https://gitlab"}, GITLAB_TOKEN : {"", "glpat"},
     GITLAB_WEBHOOK_SECRET : {""}, FLINTLOCK_ENDPOINT : {""}]

\* main up to loadConfig: on an error logger.Fatal ends the process.
MainLoadConfig ==
    /\ sd.pc = "boot"
    /\ \E file \in ConfigFiles, env \in Environments :
          LET r == loadConfig(file, env) IN
          IF r.err # "nil"
          THEN /\ sd' = [sd EXCEPT !.pc = "terminated"]
               /\ cfg' = cfg
          ELSE /\ sd' = [sd EXCEPT !.pc = "loaded"]
               /\ cfg' = r.cfg
    /\ UNCHANGED <<http, now, schedVars, vmVars, backendUp, ciRunners, vmReaper, histVars>>

\* initializeApp: the clients, the VM manager, the scheduler and the HTTP
\* server are built from cfg (a failed health check only logs).
MainInitializeApp ==
    /\ sd.pc = "loaded"
    /\ sd' = [sd EXCEPT !.pc = "initialized"]
    /\ UNCHANGED <<cfg, http, now, schedVars, vmVars, backendUp, ciRunners, vmReaper, histVars>>

\* App.Start: the reapers, the workers and the HTTP listener start.
MainStart ==
    /\ sd.pc = "initialized"
    /\ sd' = [sd EXCEPT !.pc = "running"]
    /\ UNCHANGED <<cfg, http, now, schedVars, vmVars, backendUp, ciRunners, vmReaper, histVars>>

\* ------------------------------------------------------------------------
\* Specifications
\* ------------------------------------------------------------------------

\* The next step of worker w in run/processJob.
WorkerStep(w) ==
    \/ WorkerDequeue(w)
    \/ WorkerStart(w)
    \/ WorkerCreate(w)
    \/ WorkerTrack(w)
    \/ WorkerCreateFail(w)
    \/ WorkerCreateErr(w)
    \/ WorkerRegister(w)
    \/ WorkerRegFail(w)
    \/ WorkerRegErr(w)
    \/ WorkerWait(w)
    \/ WorkerUnreg(w)
    \/ WorkerDestroy(w)
    \/ WorkerFinal(w)

\* Spec: ScheduleJob calls and the workers of a running process within one
\* clock hour, with a reachable backend (no deadline of an hour or more
\* passes, so neither reaper finds anything to reap).
Next ==
    \/ \E b \in Builds : ScheduleTrack(b)
    \/ \E o \in Objs : ScheduleEnqueue(o)
    \/ \E o \in Objs : ScheduleTimeout(o)
    \/ \E w \in Workers : WorkerStep(w)

Spec == Init /\ [][Next]_vars

\* ShutdownSpec: the same, for at most ShutdownMaxCalls ScheduleJob calls,
\* with the shutdown signal and App.Shutdown.
ShutdownScheduleTrack(b) == nAlloc < ShutdownMaxCalls /\ ScheduleTrack(b)

ShutdownNext ==
    \/ \E b \in Builds : ShutdownScheduleTrack(b)
    \/ \E o \in Objs : ScheduleEnqueue(o)
    \/ \E o \in Objs : ScheduleTimeout(o)
    \/ \E o \in Objs : SchedulePanic(o)
    \/ \E w \in Workers : WorkerStep(w)
    \/ \E w \in Workers : WorkerExit(w)
    \/ JobReaperExit
    \/ VMReaperExit
    \/ SignalShutdown
    \/ ShutdownDeadline
    \/ HttpShutdown
    \/ SchedShutdownBegin
    \/ SchedShutdownDone
    \/ SchedShutdownTimeout
    \/ MgrShutdownBegin
    \/ MgrShutdownList
    \/ MgrShutdownTimeout
    \/ \E v \in Objs : MgrShutdownDestroy(v)
    \/ MgrShutdownReturn

ShutdownSpec == Init /\ [][ShutdownNext]_vars

\* TimedSpec: the running process over several hours, with the job deadline,
\* both reapers and a backend that may be down, for at most TimedMaxCalls
\* ScheduleJob calls and no shutdown signal.
TimedScheduleTrack(b) == nAlloc < TimedMaxCalls /\ ScheduleTrack(b)

TimedNext ==
    \/ Tick
    \/ BackendToggle
    \/ \E b \in Builds : TimedScheduleTrack(b)
    \/ \E o \in Objs : ScheduleEnqueue(o)
    \/ \E w \in Workers : WorkerStep(w)
    \/ JobCleanup
    \/ VMReaperScan
    \/ \E v \in Objs : VMReaperDestroy(v)

\* The configuration file may set a job_timeout other than the default.
TimedInit == \E jt \in JobTimeouts : InitWith(jt)

TimedSpec == TimedInit /\ [][TimedNext]_vars

\* TimedFairSpec: TimedSpec under fair scheduling: the clock advances, a
\* ScheduleJob call, a worker and the stale-VM reaper each take their next
\* step if it stays possible.  Nothing makes the backend come back.
TimedFairness ==
    /\ WF_vars(Tick)
    /\ \A o \in Objs : WF_vars(ScheduleEnqueue(o))
    /\ \A w \in Workers : WF_vars(WorkerStep(w))
    /\ WF_vars(VMReaperScan)
    /\ \A v \in Objs : WF_vars(VMReaperDestroy(v))

TimedFairSpec == TimedSpec /\ TimedFairness

\* ReapSpec: the running process over several hours with both reapers and
\* at most ReapMaxCalls ScheduleJob calls, so that an old and a young Job or
\* VM are registered together when a reaper pass runs.
ReapScheduleTrack(b) == nAlloc < ReapMaxCalls /\ ScheduleTrack(b)

ReapNext ==
    \/ Tick
    \/ BackendToggle
    \/ \E b \in Builds : ReapScheduleTrack(b)
    \/ \E o \in Objs : ScheduleEnqueue(o)
    \/ \E w \in Workers : WorkerStep(w)
    \/ JobCleanup
    \/ VMReaperScan
    \/ \E v \in Objs : VMReaperDestroy(v)

ReapSpec == Init /\ [][ReapNext]_vars

\* RetrySpec: ScheduleJob calls and workers of a running process with the
\* flintlock.retry_attempts of config.Default and a backend that may be
\* down, for at most RetryMaxCalls ScheduleJob calls.
RetryInit == InitCfg([DefaultCfg EXCEPT !.RetryAttempts = DefaultRetryAttempts])

RetryScheduleTrack(b) == nAlloc < RetryMaxCalls /\ ScheduleTrack(b)

RetryNext ==
    \/ BackendToggle
    \/ \E b \in Builds : RetryScheduleTrack(b)
    \/ \E o \in Objs : ScheduleEnqueue(o)
    \/ \E w \in Workers : WorkerStep(w)

RetrySpec == RetryInit /\ [][RetryNext]_vars

\* Scheduler.GetJob: under the read lock, return the *Job the registry holds
\* for the build id.  The caller keeps the pointer; what it reads through it
\* later is the Job object as it is then.
GetJob(b) ==
    /\ Alive
    /\ jobs[b] # 0
    /\ reader.ref = 0
    /\ reader' = [ref |-> jobs[b], seen |-> Fields(heap[jobs[b]])]
    /\ UNCHANGED <<cfg, http, now, schedVars, vmVars, backendUp, ciRunners, vmReaper, sd,
                   unregTried, sdPolling, destroyHist, createReqs, mon>>

\* QuerySpec: ScheduleJob calls, workers and one caller of the query API on
\* a running process, for at most QueryMaxCalls ScheduleJob calls.
QueryScheduleTrack(b) == nAlloc < QueryMaxCalls /\ ScheduleTrack(b)

QueryNext ==
    \/ \E b \in Builds : QueryScheduleTrack(b)
    \/ \E o \in Objs : ScheduleEnqueue(o)
    \/ \E w \in Workers : WorkerStep(w)
    \/ \E b \in Builds : GetJob(b)

QuerySpec == Init /\ [][QueryNext]_vars

\* JobMonitor.isJobFailed
isJobFailed(st) == st \in {"failed", "canceled"}

\* JobMonitor.WaitForJobCompletion is called; the context it is given may
\* be done already.
MonStart ==
    /\ mon.pc = "idle"
    /\ \E d \in BOOLEAN : mon' = [mon EXCEPT !.pc = "loop", !.ctxDone = d]
    /\ UNCHANGED <<cfg, http, now, schedVars, vmVars, backendUp, ciRunners, vmReaper, sd,
                   unregTried, sdPolling, destroyHist, createReqs, reader>>

\* The context is canceled or its deadline passes while the loop runs.
MonCtxDone ==
    /\ mon.pc = "loop"
    /\ ~mon.ctxDone
    /\ mon' = [mon EXCEPT !.ctxDone = TRUE]
    /\ UNCHANGED <<cfg, http, now, schedVars, vmVars, backendUp, ciRunners, vmReaper, sd,
                   unregTried, sdPolling, destroyHist, createReqs, reader>>

\* case <-ctx.Done(): return nil, ctx.Err()
MonCtxReturn ==
    /\ mon.pc = "loop"
    /\ mon.ctxDone
    /\ mon' = [mon EXCEPT !.pc = "returned", !.job = "nil", !.err = "ctx"]
    /\ UNCHANGED <<cfg, http, now, schedVars, vmVars, backendUp, ciRunners, vmReaper, sd,
                   unregTried, sdPolling, destroyHist, createReqs, reader>>

\* case <-ticker.C: GetJob (which does not look at ctx) yields an error or
\* a status; an error continues the loop, a complete status returns
\* (job, nil), a failed one would return (job, error), any other continues.
MonPoll ==
    /\ mon.pc = "loop"
    /\ mon.polls < MaxPolls
    /\ \E st \in PollResults :
          mon' = IF st = "error"
                 THEN [mon EXCEPT !.polls = @ + 1, !.last = st]
                 ELSE IF isJobComplete(st)
                 THEN [mon EXCEPT !.polls = @ + 1, !.last = st, !.pc = "returned",
                                  !.job = st, !.err = "nil"]
                 ELSE IF isJobFailed(st)
                 THEN [mon EXCEPT !.polls = @ + 1, !.last = st, !.pc = "returned",
                                  !.job = st, !.err = "status"]
                 ELSE [mon EXCEPT !.polls = @ + 1, !.last = st]
    /\ UNCHANGED <<cfg, http, now, schedVars, vmVars, backendUp, ciRunners, vmReaper, sd,
                   unregTried, sdPolling, destroyHist, createReqs, reader>>

\* MonitorSpec: one call of WaitForJobCompletion with at most MaxPolls ticks
\* of its ticker.
MonitorNext == MonStart \/ MonCtxDone \/ MonCtxReturn \/ MonPoll

MonitorSpec == Init /\ [][MonitorNext]_vars

\* MonitorFairSpec: select takes a ready case at random, so the ctx.Done()
\* case, ready for good once the context is done, is taken in the end.
MonitorFairSpec == MonitorSpec /\ WF_vars(MonCtxReturn)

\* Time passes between two steps: a time.Now() read later is later.
TimePasses ==
    /\ Alive
    /\ now < ClockMaxTime
    /\ now' = now + 1
    /\ UNCHANGED <<cfg, http, schedVars, vmVars, backendUp, ciRunners, vmReaper, sd, histVars>>

\* ClockSpec: ScheduleJob calls and workers of a running process, with a
\* clock that may advance between any two steps, a job_timeout longer than
\* the time observed and at most ClockMaxCalls ScheduleJob calls.
ClockInit == InitWith(JobTimeout + ClockMaxTime)

ClockScheduleTrack(b) == nAlloc < ClockMaxCalls /\ ScheduleTrack(b)

ClockNext ==
    \/ TimePasses
    \/ \E b \in Builds : ClockScheduleTrack(b)
    \/ \E o \in Objs : ScheduleEnqueue(o)
    \/ \E w \in Workers : WorkerStep(w)

ClockSpec == ClockInit /\ [][ClockNext]_vars


\* FifoSpec: ScheduleJob calls and workers of a running process whose
\* configuration has queue_size FifoQueueSize, so that Jobs wait behind one
\* another in the queue.
FifoInit == InitCfg([DefaultCfg EXCEPT !.QueueSize = FifoQueueSize])

FifoScheduleTrack(b) == nAlloc < FifoMaxCalls /\ ScheduleTrack(b)

FifoNext ==
    \/ \E b \in Builds : FifoScheduleTrack(b)
    \/ \E o \in Objs : ScheduleEnqueue(o)
    \/ \E o \in Objs : ScheduleTimeout(o)
    \/ \E w \in Workers : WorkerStep(w)

FifoSpec == FifoInit /\ [][FifoNext]_vars

\* FairSpec: at most FairMaxCalls ScheduleJob calls and the workers of a
\* running process under fair scheduling: a ScheduleJob call and a worker
\* each take their next step (the calls a worker makes return, and the
\* monitor loop ends).
FairScheduleTrack(b) == nAlloc < FairMaxCalls /\ ScheduleTrack(b)

FairNext ==
    \/ \E b \in Builds : FairScheduleTrack(b)
    \/ \E o \in Objs : ScheduleEnqueue(o)
    \/ \E o \in Objs : ScheduleTimeout(o)
    \/ \E w \in Workers : WorkerStep(w)

Fairness ==
    /\ \A o \in Objs : WF_vars(ScheduleEnqueue(o) \/ ScheduleTimeout(o))
    /\ \A w \in Workers : WF_vars(WorkerStep(w))

FairSpec == Init /\ [][FairNext]_vars /\ Fairness

\* WebhookSpec: requests to /webhook of a running process, with or without
\* a webhook secret configured, and the ScheduleJob calls they lead to (at
\* most WebhookMaxCalls).
WebhookInit ==
    \E secret \in {"", "s3cret"} : InitCfg([DefaultCfg EXCEPT !.WebhookSecret = secret])

\* The requests sent, all from one peer without TLS: every method, token,
\* signature, event type and declared size with a body that is eligible; and
\* every body under every event type with the right token.
AuthRequests ==
    {[PlainRequest EXCEPT !.method = m, !.token = t, !.sig = sg, !.event = e,
                          !.big = big] :
        m \in {"POST", "GET"}, t \in {"", "s3cret", "wrong"},
        sg \in {NoHeader, Mac("s3cret", PlainRequest.body), Mac("wrong", PlainRequest.body)},
        e \in {"", "Job Hook", "Pipeline Hook", "Push Hook"}, big \in BOOLEAN}

BodyRequests ==
    {[PlainRequest EXCEPT !.event = e, !.body = b] :
        e \in {"Job Hook", "Pipeline Hook", "Push Hook"}, b \in Bodies}

WebhookRequests == AuthRequests \cup BodyRequests

WebhookServeCapped(r) ==
    /\ ServeHTTP(r).schedule => nAlloc < WebhookMaxCalls
    /\ WebhookServe(r)

WebhookNext ==
    \/ \E r \in WebhookRequests : WebhookServeCapped(r)
    \/ \E o \in Objs : ScheduleEnqueue(o)

WebhookSpec == WebhookInit /\ [][WebhookNext]_vars

\* SecureSpec: requests served by a SecureWebhookHandler as
\* NewSecureWebhookHandler builds it, or with TLS required and an allow-list
\* set through UpdateSecurityConfig, and the ScheduleJob calls they lead to
\* (at most SecureMaxCalls).
SecureInit ==
    \E strict \in BOOLEAN :
        InitCfg([DefaultCfg EXCEPT !.RequireSSL = strict,
                                   !.AllowedIPs = IF strict THEN {1} ELSE {}])

\* The requests sent: from peer 1 on every port; and from either peer on one
\* port with every method, token, event type, declared size and transport.
RateRequests == {[PlainRequest EXCEPT !.port = p, !.tls = TRUE] : p \in Ports}

OrderRequests ==
    {[PlainRequest EXCEPT !.method = m, !.token = t, !.event = e, !.big = big,
                          !.tls = tls, !.ip = i] :
        m \in {"POST", "GET"}, t \in {"", "s3cret", "wrong"},
        e \in {"", "Job Hook"}, big \in BOOLEAN, tls \in BOOLEAN, i \in IPs}

SignedRequests ==
    {[PlainRequest EXCEPT !.token = "", !.tls = TRUE,
                          !.hub = Mac("s3cret", PlainRequest.body)]}

SecureRequests == RateRequests \cup OrderRequests \cup SignedRequests

SecureServeCapped(r) ==
    /\ SecureServeHTTP(r).schedule => nAlloc < SecureMaxCalls
    /\ CountsAfter(RemoteAddr(r))[RemoteAddr(r)] <= cfg.RateLimitPerMinute + 1
    /\ SecureServe(r)

SecureNext ==
    \/ \E r \in SecureRequests : SecureServeCapped(r)
    \/ MinutePasses
    \/ \E o \in Objs : ScheduleEnqueue(o)

SecureSpec == SecureInit /\ [][SecureNext]_vars

\* ParseSpec: Job Hooks with the right secret whose tags carry resource
\* segments of every shape, and the ScheduleJob calls they lead to (at most
\* ParseMaxCalls).
TagDocker == <<"d", "o", "c", "k", "e", "r">>

Prefixes == {TagFirecracker, TagDocker}

\* The numbers written in the segments.
Nums == {0, 4, MaxNum}

\* What follows the number in a segment: nothing, or a letter.
Junk == {<<>>, <<"x">>}

\* Segments ending in cpu: "0cpu", "4cpu", "16cpu", "4xcpu", "xcpu", "+4cpu";
\* and the like ending in gb.
CpuSegments ==
    {Numeral(n) \o SuffixCpu : n \in Nums}
        \cup {Numeral(4) \o <<"x">> \o SuffixCpu, <<"x">> \o SuffixCpu,
              <<"+", "4">> \o SuffixCpu}

GbSegments ==
    {Numeral(m) \o SuffixGb : m \in Nums}
        \cup {Numeral(4) \o <<"x">> \o SuffixGb, <<"x">> \o SuffixGb}

\* Tags: firecracker-cpu-gb in every combination; the segments in other
\* orders; and tags with one kind of segment or none.
ParseTagSet ==
    {Join(<<TagFirecracker, c, g>>) : c \in CpuSegments, g \in GbSegments}
        \cup {Join(<<Numeral(4) \o SuffixGb, Numeral(MaxNum) \o SuffixCpu,
                     TagFirecracker>>),
              Join(<<TagFirecracker, Numeral(4) \o SuffixGb, Numeral(4) \o SuffixCpu>>),
              Join(<<TagFirecracker, Numeral(4) \o SuffixCpu>>),
              TagFirecracker, TagDocker}

\* The tags that appear in lists of two.
PairTagSet ==
    {FormTag(TagFirecracker, 4, 4), FormTag(TagDocker, MaxNum, MaxNum),
     Join(<<TagFirecracker, <<"x">> \o SuffixCpu, <<"x">> \o SuffixGb>>),
     Join(<<TagDocker, Numeral(0) \o SuffixCpu, <<"x">> \o SuffixGb>>)}

ParseTagLists ==
    {<<>>} \cup {<<t>> : t \in ParseTagSet}
           \cup {<<t1, t2>> : t1 \in PairTagSet, t2 \in PairTagSet}

ParseRequests == {[PlainRequest EXCEPT !.body.tags = tags] : tags \in ParseTagLists}

ParseServeCapped(r) ==
    /\ ServeHTTP(r).schedule => nAlloc < ParseMaxCalls
    /\ WebhookServe(r)

ParseNext ==
    \/ \E r \in ParseRequests : ParseServeCapped(r)
    \/ \E o \in Objs : ScheduleEnqueue(o)

ParseSpec == Init /\ [][ParseNext]_vars

\* StartupSpec: the process from the start of main, with every content of
\* the configuration file and the environment, and the first ScheduleJob
\* calls once it runs (at most StartupMaxCalls).
StartupInit == InitAt(ConfigDefault, "boot")

StartupScheduleTrack(b) == nAlloc < StartupMaxCalls /\ ScheduleTrack(b)

StartupNext ==
    \/ MainLoadConfig
    \/ MainInitializeApp
    \/ MainStart
    \/ \E b \in Builds : StartupScheduleTrack(b)
    \/ \E o \in Objs : ScheduleEnqueue(o)
    \/ \E o \in Objs : ScheduleTimeout(o)

StartupSpec == StartupInit /\ [][StartupNext]_vars

\* ------------------------------------------------------------------------
\* Properties
\* ------------------------------------------------------------------------

\* The Job object o is in the hands of a worker.
Held(o) == \E w \in Workers : W(w).job = o

\* The set of Job objects in the queue.
Queued == {jobQueue[i] : i \in 1..Len(jobQueue)}

\* C1 (as claimed): a Job that is finished or failed, and that no worker is
\* processing any more, holds no resources: vm is null and runnerID is 0.
C1_TerminalHoldsNothing ==
    \A o \in Objs :
        (heap[o].Status \in Terminal /\ ~Held(o))
            => (heap[o].VM = 0 /\ heap[o].RunnerID = 0)

\* C2 (as claimed): once the registry entry of a build id has status finished
\* or failed, no step changes the status found under that build id.
C2_TerminalImmutable ==
    [][\A b \in Builds :
          (jobs[b] # 0 /\ heap[jobs[b]].Status \in Terminal /\ jobs'[b] # 0)
              => heap'[jobs'[b]].Status = heap[jobs[b]].Status]_vars

\* C4 (as claimed): the registry entry of an admitted Job is neither removed
\* nor replaced by any step other than the reaping of a terminal Job.
C4_AdmittedStays ==
    [][\A o \in Objs :
          (heap[o].call = "ok" /\ jobs[heap[o].ID] = o)
              => \/ jobs'[heap[o].ID] = o
                 \/ (heap[o].Status \in Terminal /\ heap[o].ID \in Reapable)]_vars

\* C5 (as claimed): for one build id at most one Job is ever admitted to the
\* queue, and at most one VM is provisioned.
C5_OneJobPerBuild ==
    \A o1, o2 \in Objs :
        (o1 # o2 /\ heap[o1].ID # 0 /\ heap[o1].ID = heap[o2].ID)
            => /\ ~(heap[o1].call = "ok" /\ heap[o2].call = "ok")
               /\ ~(heap[o1].VMID # 0 /\ heap[o2].VMID # 0)

\* C8 (as claimed): a terminal Job whose runner was registered and whose
\* cleanup has called UnregisterRunner has no runner left on the CI platform.
C8_NoOrphanRunner ==
    \A o \in Objs :
        (heap[o].Status \in Terminal /\ heap[o].RunnerID # 0
            /\ heap[o].RunnerID \in unregTried)
            => heap[o].RunnerID \notin ciRunners

\* C9: a ScheduleJob call is never admitted while the queue is full; the step
\* that rejects it happens with a full queue, deletes the registry entry of
\* its build id, and leaves the queue and every queued Job as they were; a
\* rejected Job is canceled and is never the registry's entry.
C9_QueueFullRejects ==
    [][\A o \in Objs :
          /\ heap'[o].call = "full"
                => (heap'[o].canceled /\ jobs'[heap'[o].ID] # o)
          /\ (heap[o].call = "pending" /\ Len(jobQueue) = cfg.QueueSize)
                => heap'[o].call # "ok"
          /\ (heap[o].call = "pending" /\ heap'[o].call = "full")
                => /\ Len(jobQueue) = cfg.QueueSize
                   /\ jobs'[heap[o].ID] = 0
                   /\ jobQueue' = jobQueue
                   /\ \A q \in Queued : heap'[q] = heap[q]]_vars

\* C9 witness: a call was rejected while an admitted Job sits in the queue,
\* still queued and still the registry's entry.
C9_Witness ==
    \E o \in Objs :
        /\ heap[o].call = "full"
        /\ jobQueue # <<>>
        /\ heap[Head(jobQueue)].Status = "queued"
        /\ jobs[heap[Head(jobQueue)].ID] = Head(jobQueue)

\* C10 (as claimed): of two concurrent ScheduleJob calls at least one is
\* admitted: no call is rejected after a call concurrent with it was rejected.
C10_OneOfTwoAdmitted ==
    \A o \in Objs : ~(heap[o].call = "full" /\ heap[o].conc)

\* C10 (amended): every ScheduleJob call ends admitted or rejected; the step
\* that admits it puts it at the tail of the queue behind the Jobs admitted
\* before it, and the step that rejects it happens only with a full queue.
C10_AdmittedOrFull ==
    [][\A o \in Objs :
          heap[o].call = "pending"
              => \/ heap'[o].call = "pending"
                 \/ /\ heap'[o].call = "ok"
                    /\ jobQueue' = Append(jobQueue, o)
                 \/ /\ heap'[o].call = "full"
                    /\ Len(jobQueue) = cfg.QueueSize
                    /\ jobQueue' = jobQueue]_vars

\* C10 witness: of two concurrent calls one was admitted and one rejected.
C10_Witness ==
    \E o1, o2 \in Objs :
        /\ heap[o1].call = "ok" /\ heap[o1].conc
        /\ heap[o2].call = "full"


\* The monitor loop of the worker processing o has returned on a terminal
\* CI status (success leaves job.err nil).
MonitorSawTerminal(o) ==
    \/ heap[o].err = "status"
    \/ heap[o].err = "nil" /\ ~\E w \in Workers : W(w).job = o /\ W(w).pc = "wait"

\* C3 (as claimed): once Scheduler.Shutdown has returned, every Job that a
\* worker was polling when Shutdown began, and whose CI status has not become
\* terminal since, had its token canceled and its monitor returned ctx.Err(),
\* its VM is destroyed, it is failed, and Shutdown returned nil.
C3_ShutdownInterruptsPolling ==
    sd.schedErr # "none"
        => \A o \in sdPolling :
               \/ MonitorSawTerminal(o)
               \/ /\ sd.schedErr = "nil"
                  /\ heap[o].canceled
                  /\ heap[o].err = "ctx"
                  /\ heap[o].Status = "failed"
                  /\ o \notin vms

\* C6 (as claimed): no step destroys the VM of a Job that has a registered
\* runner unless UnregisterRunner has been called for that runner.
C6_RunnerBeforeVM ==
    [][\A v \in Objs :
          (v \in backendVMs /\ v \notin backendVMs' /\ heap[v].RunnerID # 0)
              => heap[v].RunnerID \in unregTried]_vars

\* A tracked VM old enough to be found stale before the clock's horizon.
Reapworthy(v) == v \in vms /\ vmCreatedAt[v] + VMMaxAge < MaxTime

Pos(q, o) == IF \E i \in 1..Len(q) : q[i] = o
             THEN CHOOSE i \in 1..Len(q) : q[i] = o
             ELSE 0

\* C11: Jobs leave the queue in the order in which they entered it: a Job
\* enters the queue behind every Job waiting there, the Jobs that wait keep
\* their order, and the Job a worker takes is the one that has waited longest
\* (no Job that entered the queue before it is still waiting).
C11_QueueIsFIFO ==
    [][/\ \A o \in Objs :
             (Pos(jobQueue, o) = 0 /\ Pos(jobQueue', o) # 0)
                 => /\ heap[o].call = "pending" /\ heap'[o].call = "ok"
                    /\ Pos(jobQueue', o) = Len(jobQueue')
       /\ \A o1, o2 \in Objs :
             (Pos(jobQueue', o1) # 0 /\ Pos(jobQueue', o2) # 0
                 /\ Pos(jobQueue, o1) # 0 /\ Pos(jobQueue, o2) # 0)
                 => (Pos(jobQueue, o1) < Pos(jobQueue, o2)
                        <=> Pos(jobQueue', o1) < Pos(jobQueue', o2))
       /\ \A o \in Objs :
             (Pos(jobQueue, o) # 0 /\ Pos(jobQueue', o) = 0)
                 => /\ Pos(jobQueue, o) = 1
                    /\ \E w \in Workers : W(w).job = 0 /\ workers'[w].job = o]_vars

\* C11 witness: a worker has taken a Job while two other Jobs wait in the
\* queue, the one admitted later behind the one admitted earlier although it
\* was constructed first.
C11_Witness ==
    /\ Len(jobQueue) = 2
    /\ jobQueue[1] > jobQueue[2]
    /\ \E w \in Workers : W(w).job # 0 /\ W(w).pc = "start"


\* The Jobs being processed: received by a worker, processJob not returned.
Processing == {o \in Objs : Held(o)}

\* The Jobs for which a worker is inside Manager.CreateVM.
Creating == {o \in Objs : \E w \in Workers : W(w).job = o /\ W(w).pc \in {"create", "track"}}

\* C12: at every moment at most workerCount Jobs are being processed, at
\* most workerCount VM-create calls are under way, and at most queueSize
\* Jobs wait in the queue.
C12_BoundedConcurrency ==
    /\ Cardinality(Processing) <= WorkerCount
    /\ Cardinality(Creating) <= WorkerCount
    /\ Len(jobQueue) <= cfg.QueueSize

\* C12 witness: every worker is inside a VM-create call while the queue is
\* full.
C12_Witness ==
    /\ Cardinality(Creating) = WorkerCount
    /\ Len(jobQueue) = cfg.QueueSize


\* C13 (as claimed): under fair scheduling every Job picked up by a worker
\* eventually has status finished or failed.
C13_PickedUpReachesTerminal ==
    \A o \in Objs : Held(o) ~> (heap[o].Status \in Terminal)


\* processJob has returned for Job object o.
Returned(o) == heap[o].call = "ok" /\ o \notin Queued /\ ~Held(o)

\* C14 (as claimed): once processJob has returned for a Job, the Job is
\* finished if its VM was created, its runner registered and the monitor
\* returned success (job.err is nil), and otherwise it is failed with a
\* non-nil error.
C14_StatusMatchesOutcome ==
    \A o \in Objs :
        Returned(o)
            => IF heap[o].err = "nil"
               THEN heap[o].Status = "finished" /\ heap[o].VMID # 0
                    /\ heap[o].RunnerID # 0
               ELSE heap[o].Status = "failed"


\* C15 (as claimed): once Scheduler.Shutdown has returned, with nil or with
\* an error, the token of every Job in the registry is canceled.
C15_ShutdownCancelsAll ==
    sd.schedErr # "none"
        => \A b \in Builds : jobs[b] # 0 => heap[jobs[b]].canceled


\* The request proves no knowledge of the configured secret: its token is
\* not the secret (or is missing) and it carries no HMAC of its body under
\* the secret.
InvalidSecret(r) ==
    /\ r.token # cfg.WebhookSecret
    /\ r.sig # Mac(cfg.WebhookSecret, r.body)
    /\ r.hub # Mac(cfg.WebhookSecret, r.body)

\* C16: with a webhook secret configured, the step that serves a request
\* whose secret is wrong or missing leaves the Job registry, the Jobs and the
\* queue as they were (ScheduleJob does not run), and the response is 401, or
\* 405 if the request is not a POST.
C16_InvalidSecretSchedulesNothing ==
    [][(http' # http /\ cfg.WebhookSecret # "" /\ InvalidSecret(http'.last.req))
          => /\ jobs' = jobs /\ heap' = heap /\ nAlloc' = nAlloc
             /\ jobQueue' = jobQueue
             /\ ~http'.last.scheduled
             /\ http'.last.code = IF http'.last.req.method = "POST" THEN 401 ELSE 405]_vars

\* C16 witness: with a secret configured and a Job in the registry, a POST
\* Job Hook for an eligible build with a wrong token has been answered 401.
C16_Witness ==
    /\ cfg.WebhookSecret # ""
    /\ \E b \in Builds : jobs[b] # 0
    /\ http.last.code = 401
    /\ http.last.req.token = "wrong"
    /\ http.last.req.event = "Job Hook"
    /\ processJobEvent(http.last.req.body) = "schedule"

\* A response has been sent by the handler (code 0: the request went on to
\* ScheduleJob, whose result decides between 200 and 500).
Answered == http.last.code # -1

\* C17: the response is that of the first failing check in the order
\* transport 403, allow-list 403, rate limit 429, body size 413, method 405,
\* secret 401, event type 400: a request whose declared size is over the cap
\* is rejected by the envelope; one the envelope did not reject gets 405 if
\* it is not a POST, and 401 if it is a POST whose secret is wrong or
\* missing; 400 is answered only to a POST that passes the secret check and
\* has no event type.
C17_FirstFailingCheckAnswers ==
    LET r == http.last.req
        c == http.last.code
        badSecret == cfg.WebhookSecret # "" /\ InvalidSecret(r)
    IN  Answered =>
          /\ r.big => c \in {403, 429, 413}
          /\ (c \notin {403, 429, 413} /\ r.method # "POST") => c = 405
          /\ (c \notin {403, 429, 413} /\ r.method = "POST" /\ badSecret) => c = 401
          /\ c = 400 => (r.method = "POST" /\ ~badSecret /\ r.event = "")

\* C18: a request whose body was parsed, or that scheduled a Job, had passed
\* the envelope's transport, allow-list and body-size checks.
C18_ParsedOnlyAfterEnvelope ==
    (http.last.parsed \/ http.last.scheduled) =>
        /\ ~(cfg.RequireSSL /\ ~http.last.req.tls)
        /\ isIPAllowed(RemoteAddr(http.last.req))
        /\ ~http.last.req.big

\* C19: since the counters were last reset, at most RateLimitPerMinute
\* requests of one peer got past the rate limit, whatever their source ports.
C19_RateLimitPerPeer ==
    \A i \in IPs : http.passed[i] <= cfg.RateLimitPerMinute

\* The status WebhookHandler.ServeHTTP answers once ScheduleJob (called
\* through processEvent and EventProcessor.ProcessJobEvent) has returned for
\* the Job o: 500 on an error, else 200 with {"status":"accepted"}; 0 while
\* the call has not returned.
Response(o) ==
    IF heap[o].call = "full" THEN 500
    ELSE IF heap[o].call = "ok" THEN 200
    ELSE 0

\* The request got past the method, secret and event-type checks of
\* WebhookHandler.ServeHTTP.
Dispatched == Answered /\ http.last.code \notin {405, 401, 400}

\* The eligibility rule of the specification: a Job Hook whose build status
\* is pending or created and one of whose tags, lower-cased and trimmed,
\* starts with a recognized prefix.
Eligible(r) ==
    /\ r.event = "Job Hook"
    /\ r.body.status \in {"pending", "created"}
    /\ \E i \in 1..Len(r.body.tags) :
         \E prefix \in {TagFirecracker, TagMicrovm, TagFirerunner, TagActuated} :
            HasPrefix(ToLower(TrimSpace(r.body.tags[i])), prefix)

\* C20: a dispatched webhook leads to ScheduleJob exactly if it is eligible;
\* one that is not eligible is answered 200, and the step that serves it
\* leaves the registry, the Jobs and the queue as they were.
C20_ScheduledIffEligible ==
    [][(http' # http /\ (Dispatched)')
          => /\ http'.last.scheduled <=> Eligible(http'.last.req)
             /\ ~Eligible(http'.last.req)
                  => /\ http'.last.code = 200
                     /\ jobs' = jobs /\ heap' = heap /\ nAlloc' = nAlloc
                     /\ jobQueue' = jobQueue]_vars

\* C21: the step in which the ScheduleJob call of an eligible Job Hook
\* returns is answered 200 exactly if the call succeeded, and the Job's build
\* id is then in the registry and the Job in the queue; it is answered 500
\* exactly if the call returned an error.
C21_ResponseMatchesScheduling ==
    [][\A o \in Objs :
          (Response(o) = 0 /\ Response(o)' # 0)
              => /\ Response(o)' = 200
                    <=> (jobs'[heap'[o].ID] # 0 /\ o \in Queued')
                 /\ Response(o)' = 500
                    <=> (jobs'[heap'[o].ID] # o /\ o \notin Queued')]_vars

\* The tag is of the form <prefix>-<N>cpu-<M>gb.
IsFormTag(tag) ==
    \E p \in Prefixes, n \in Nums, m \in Nums : tag = FormTag(p, n, m)

\* The tag list of the request served last, and what ParseVMRequirements
\* returns for it.
LastTags == http.last.req.body.tags

LastRequirements == ParseVMRequirements(LastTags)

NoLeadingInteger(tag) ==
    \A k \in 1..Len(Split(tag)) :
        LET part == Split(tag)[k] IN
        part = <<>> \/ ~(IsDigit(Head(part)) \/ Head(part) \in {"+", " ", "\t", "\r"})

C23_ResourcesInRange ==
    \A o \in Objs :
        heap[o].Status # "none" => (heap[o].VCPU >= 1 /\ heap[o].MemoryMB >= 512)

\* C24 (as claimed): the scheduler and the HTTP listener run only with a
\* configuration for which Validate returns no error.
C24_RunsOnlyValidated ==
    sd.pc = "running" => Validate(cfg) = "nil"

\* C25: the first DestroyVM call for a tracked VM, with the backend
\* reachable, deletes the VM at the backend, with one delete request, and
\* removes it from the registry; a second call for that id, made when the VM
\* is no longer in the registry, returns the not-found error, changes neither
\* the registry nor the backend and issues no delete request.
C25_SecondDestroyNotFound ==
    [][\A v \in Objs :
          /\ (destroyCalls[v] = 0 /\ destroyCalls'[v] = 1 /\ v \in vms /\ backendUp)
                => /\ v \notin vms' /\ v \notin backendVMs'
                   /\ deleteReqs'[v] = 1
          /\ (destroyCalls[v] = 1 /\ destroyCalls'[v] = 2 /\ v \notin vms)
                => /\ DestroyErr(v, TRUE) = "not found"
                   /\ vmVars' = vmVars
                   /\ deleteReqs' = deleteReqs]_vars

\* C25 witness: DestroyVM was called twice for a VM that had been created;
\* one delete request was issued and the VM is gone from the registry and the
\* backend.
C25_Witness ==
    \E v \in Objs :
        /\ vmCreatedAt[v] # 0
        /\ destroyCalls[v] = 2 /\ deleteReqs[v] = 1
        /\ v \notin vms /\ v \notin backendVMs

\* C26: a pass of the stale-VM reaper collects exactly the registered VMs
\* created more than 2 h ago, calls DestroyVM once for each collected id and
\* for no other id, and no step of the pass removes a registered VM that is
\* younger than that.
Young(v) == v \in vms /\ now - vmCreatedAt[v] <= VMMaxAge

C26_ReaperDestroysExactlyStale ==
    [][/\ (vmReaper.stale = {} /\ vmReaper'.stale # {})
             => /\ vmReaper'.stale = {v \in vms : now - vmCreatedAt[v] > VMMaxAge}
                /\ destroyCalls' = destroyCalls
                /\ vms' = vms
       /\ (vmReaper.stale # {} /\ vmReaper' # vmReaper)
             => \E v \in vmReaper.stale :
                   /\ vmReaper'.stale = vmReaper.stale \ {v}
                   /\ destroyCalls'[v] > destroyCalls[v] \/ destroyCalls[v] = CallCap
                   /\ \A u \in Objs \ {v} : destroyCalls'[u] = destroyCalls[u]
                   /\ \A u \in Objs : Young(u) => u \in vms'
       /\ (vmReaper.stale = {}) => (vmReaper'.stale # {} \/ destroyCalls' = destroyCalls
                                      \/ \E w \in Workers : workers'[w] # workers[w])]_vars

\* The owning worker's delete call failed, the reaper has destroyed the VM
\* once it was older than 2 h, and a younger VM is still registered.
C26_Witness ==
    \E v, u \in Objs :
        /\ v # u
        /\ vmCreatedAt[v] # 0 /\ now - vmCreatedAt[v] > VMMaxAge
        /\ v \notin vms /\ destroyCalls[v] = 2 /\ deleteReqs[v] = 2
        /\ Young(u)
        /\ vmReaper.stale = {}

\* C27: a pass of the finished-job reaper removes from the registry exactly
\* the Jobs whose status is finished or failed and whose finishedAt is more
\* than 1 h in the past, and cancels the token of each; every other
\* registered Job (queued, running however old, finished within the last
\* hour) is still registered, untouched, after the pass.
OldTerminal(o) ==
    /\ heap[o].Status \in {"finished", "failed"}
    /\ now - heap[o].FinishedAt > JobMaxAge

C27_JobReaperRemovesExactlyOldTerminal ==
    [][JobCleanup =>
          \A b \in Builds :
              jobs[b] # 0 =>
                 IF OldTerminal(jobs[b])
                 THEN jobs'[b] = 0 /\ heap'[jobs[b]].canceled
                 ELSE jobs'[b] = jobs[b] /\ heap'[jobs[b]] = heap[jobs[b]]]_vars

\* The reaper has removed and canceled a Job that finished more than 1 h
\* ago, while a Job that has been running for more than 1 h is still
\* registered.
C27_Witness ==
    \E o, p \in Objs :
        /\ o # p
        /\ OldTerminal(o) /\ heap[o].call = "ok" /\ heap[o].canceled
        /\ \A b \in Builds : jobs[b] # o
        /\ heap[p].call = "ok" /\ jobs[heap[p].ID] = p
        /\ heap[p].Status = "running" /\ now - heap[p].StartedAt > JobMaxAge
        /\ ~heap[p].canceled

\* C28: once Manager.Shutdown has returned (with nil or with the context's
\* error), every VM that was registered has been destroyed at the backend
\* and the VM registry is empty.
C28_ShutdownLeavesNoVM ==
    (sd.pc = "terminated" /\ sd.mgrErr # "none")
        => /\ vms = {}
           /\ \A v \in Objs : heap[v].VMID # 0 => v \notin backendVMs

\* C29: a Job whose VM creation failed (the creation error is attached to
\* it) has status failed, having been running before; no runner was
\* registered for it, no unregister call and no DestroyVM call was made for
\* it, and it never entered the VM registry.
C29_CreateFailureLeavesNothing ==
    \A o \in Objs :
        heap[o].err = "create"
            => /\ heap[o].Status = "failed"
               /\ heap[o].StartedAt # 0 /\ heap[o].FinishedAt # 0
               /\ o \notin ciRunners /\ o \notin unregTried
               /\ destroyCalls[o] = 0
               /\ o \notin vms /\ heap[o].VMID = 0

\* C30: for each Job at most one create-VM request is sent to the backend.
C30_OneCreateRequestPerJob ==
    \A o \in Objs : createReqs[o] <= 1

\* C31: the value GetJob returned is a read-only snapshot: what the caller
\* reads through it (status, vm, runner id, error) stays what it was when
\* the call returned, whatever a worker does to the Job afterwards.
C31_GetJobReturnsSnapshot ==
    reader.ref # 0 => Fields(heap[reader.ref]) = reader.seen

\* C32: a Job whose runner registration failed is not in status failed
\* before DestroyVM has been called for its VM.
RegistrationFailed(o) ==
    \/ heap[o].err = "register"
    \/ \E w \in Workers :
          /\ W(w).job = o
          /\ \/ W(w).pc = "regErr"
             \/ W(w).pc \in {"unreg", "destroy"} /\ W(w).ret = "return"

C32_CleanupBeforeFailed ==
    \A o \in Objs :
        (RegistrationFailed(o) /\ heap[o].Status = "failed") => destroyCalls[o] >= 1

\* C33: a Job that is in the registry with status failed has its error
\* attached.
C33_FailedHasError ==
    \A b \in Builds :
        (jobs[b] # 0 /\ heap[jobs[b]].Status = "failed") => heap[jobs[b]].err # "nil"

\* C34: a Job in status running with a VM assigned has that VM in the VM
\* Manager registry, unless its own worker is in cleanupVM or between
\* cleanupVM and the final status stamp.
OwnCleanup(o) ==
    \E w \in Workers : W(w).job = o /\ W(w).pc \in {"unreg", "destroy", "final"}

C34_RunningJobHasVM ==
    \A o \in Objs :
        (heap[o].Status = "running" /\ heap[o].VM # 0 /\ ~OwnCleanup(o))
            => heap[o].VMID \in vms

\* C35: WaitForJobCompletion returns either (terminal job, nil), right after
\* a poll that observed success, failed, canceled or skipped, or
\* (nil, ctx.Err()) with the context done; a poll that errors or observes
\* any other status leaves the loop running; and once the context is done
\* the call eventually returns.
C35_MonitorReturns ==
    /\ [][/\ (mon.pc = "loop" /\ mon'.pc = "returned")
                => \/ /\ mon'.polls = mon.polls + 1
                      /\ mon'.last \in {"success", "failed", "canceled", "skipped"}
                      /\ mon'.job = mon'.last /\ mon'.err = "nil"
                   \/ /\ mon.ctxDone /\ mon'.polls = mon.polls
                      /\ mon'.job = "nil" /\ mon'.err = "ctx"
          /\ (mon.pc = "loop" /\ mon'.polls # mon.polls
                /\ mon'.last \notin {"success", "failed", "canceled", "skipped"})
                => mon'.pc = "loop"]_vars
    /\ ((mon.pc = "loop" /\ mon.ctxDone) ~> (mon.pc = "returned"))

\* The call has returned ctx.Err() after polls that failed or saw the job
\* still running.
C35_Witness ==
    /\ mon.pc = "returned" /\ mon.err = "ctx" /\ mon.job = "nil"
    /\ mon.polls >= 2 /\ mon.last = "error"

\* C36: for every Job in the registry, createdAt <= startedAt once startedAt
\* is set, and startedAt <= finishedAt once both are set.
C36_TimestampsOrdered ==
    \A b \in Builds :
        jobs[b] # 0 =>
            LET j == heap[jobs[b]] IN
            /\ j.StartedAt # 0 => j.CreatedAt <= j.StartedAt
            /\ (j.StartedAt # 0 /\ j.FinishedAt # 0) => j.StartedAt <= j.FinishedAt

\* C37: once Scheduler.Shutdown has closed the queue, no worker starts a
\* Job that was still waiting in the queue.
C37_NoStartAfterClose ==
    [][\A w \in Workers :
          (queueClosed /\ W(w).pc = "idle") => workers'[w].pc # "start"]_vars

\* C38: with a secret configured, a POST that carries no token header but a
\* signature header with the correct HMAC-SHA256 of its body is not answered
\* 401 by the handler chain.
C38_SignatureOnlyAccepted ==
    LET r == http.last.req IN
    (/\ http.last.code # -1
     /\ cfg.WebhookSecret # ""
     /\ r.method = "POST" /\ r.token = ""
     /\ \/ r.hub = Mac(cfg.WebhookSecret, r.body)
        \/ r.sig = Mac(cfg.WebhookSecret, r.body))
        => http.last.code # 401

\* C39: a ScheduleJob call that is still waiting when Shutdown closes the
\* queue, or that arrives after it, never takes the send case on the closed
\* queue: every call stays pending or ends admitted or rejected, none ends
\* in the panic of a send on a closed channel.
C39_NoSendOnClosedQueue ==
    \A o \in Objs : heap[o].call \in {"none", "pending", "ok", "full"}

\* The backend created the VM, but no attempt of CreateMicroVM got its
\* answer: the deadline of the call (or the Job's context) ended first, and a
\* further attempt found the id taken.  Every attempt was made; the worker
\* gets the error and CreateVM has tracked nothing.
WorkerCreateLost(w) ==
    /\ Alive
    /\ W(w).pc = "create"
    /\ backendUp
    /\ LET v == W(w).job IN
          /\ createReqs' = CountN(createReqs, v, cfg.RetryAttempts)
          /\ backendVMs' = backendVMs \cup {v}
    /\ Goto(w, "createFail")
    /\ UNCHANGED <<cfg, http, now, heap, nAlloc, jobs, jobQueue, queueClosed, jobReaper, vms,
                   vmCreatedAt, backendUp, ciRunners, vmReaper, sd, unregTried, sdPolling,
                   destroyHist, reader, mon>>

\* LostSpec: the running process over several hours, with both reapers and a
\* backend whose answer to a create call may be lost, for at most
\* LostMaxCalls ScheduleJob calls and no shutdown signal.
LostScheduleTrack(b) == nAlloc < LostMaxCalls /\ ScheduleTrack(b)

LostNext ==
    \/ Tick
    \/ BackendToggle
    \/ \E b \in Builds : LostScheduleTrack(b)
    \/ \E o \in Objs : ScheduleEnqueue(o)
    \/ \E w \in Workers : WorkerStep(w)
    \/ \E w \in Workers : WorkerCreateLost(w)
    \/ JobCleanup
    \/ VMReaperScan
    \/ \E v \in Objs : VMReaperDestroy(v)

LostSpec == Init /\ [][LostNext]_vars

\* C40: a worker to which CreateVM returned an error has no VM at the
\* backend for that request, and every VM the backend holds is tracked in
\* the VM Manager registry or has its create call still in flight (the
\* model's destroy calls are single steps).
CreateInFlight(v) == \E w \in Workers : W(w).job = v /\ W(w).pc \in {"create", "track"}

C40_NoUntrackedBackendVM ==
    /\ \A w \in Workers : W(w).pc = "createFail" => W(w).job \notin backendVMs
    /\ \A v \in backendVMs : v \in vms \/ CreateInFlight(v)

====
